---- MODULE Spec2Model ----
(***************************************************************************)
(* Model of the beach-crowd detection scripts (ml/scripts):                *)
(*   beach-detector.py : slice_image, merge_detections, detect_beach_crowd *)
(*   pi-detector.py    : slice_image, nms_merge, detect,                   *)
(*                       calculate_busyness, capture_hls_frame, main       *)
(*   pixel-density-analyzer.py : analyze_pixel_density, main               *)
(*   yolo-detector.py  : detect_persons, main                              *)
(*                                                                         *)
(* Conventions.                                                            *)
(*  - A bounding box is the tuple <<x1, y1, x2, y2>> (xyxy), with integer  *)
(*    coordinates; on such values the float64 arithmetic of the scripts is *)
(*    exact, so comparisons are modelled by exact rational arithmetic.     *)
(*  - A confidence c stands for the float c / 10000.                       *)
(*  - A threshold or an overlap fraction is a rational [num, den].         *)
(*  - Python lists are sequences; Python index i is index i + 1 here.      *)
(*  - Where the scripts divide and truncate (calculate_busyness,           *)
(*    analyze_pixel_density) floats are modelled bit for bit as binary64.  *)
(***************************************************************************)
EXTENDS Integers, Sequences, FiniteSets, TLC

VARIABLES
    \* ---- one call of merge_detections / nms_merge ----
    m_pc,        \* position in the function
    m_dets,      \* the argument: list of detections
    m_thr,       \* the argument iou_threshold
    m_order,     \* local `order`: indices still to process
    m_indices,   \* local `indices`: indices kept so far
    m_out,       \* the returned list
    m_pass,      \* 1: first call, 2: the call on the first call's result
    m_out1,      \* the result of the first call
    \* ---- one call of slice_image ----
    s_pc,        \* position in the function
    s_w, s_h,    \* image.shape[:2] is (s_h, s_w)
    s_size,      \* the argument slice_size
    s_overlap,   \* the argument overlap
    s_y, s_x,    \* position of the two loops in their ranges (0-based)
    s_slices,    \* local `slices`, returned at the end
    \* ---- one call of detect_beach_crowd (beach-detector) / detect (pi-detector) ----
    p_script,    \* which script runs
    p_pc,        \* position in the function
    p_image,     \* what cv2.imread returns: <<w, h>> of the image, or NoImage
    p_slicing,   \* the argument use_slicing
    p_slices,    \* local `slices`
    p_k,         \* position of the loop over `slices` (1-based)
    p_all,       \* local `all_detections`
    p_fullout,   \* what the model returns for the full image, once known
    p_calls,     \* the invocations of the model so far, with what each returned
    p_result,    \* the returned dict
    \* ---- calls of calculate_busyness (pi-detector) ----
    b_pc,        \* position in the function
    b_count,     \* the argument person_count
    b_area,      \* the argument beach_area_sqm
    b_result,    \* the returned dict
    b_pass,      \* 1: first call, 2: second call
    b_prev,      \* the first call: its person_count and its result
    \* ---- one call of analyze_pixel_density (pixel-density-analyzer) ----
    d_pc,        \* position in the function
    d_exists,    \* os.path.exists(image_path)
    d_image,     \* what cv2.imread returns: the image, or NoPixels
    d_result,    \* the returned dict
    \* ---- one run of main of a command-line tool ----
    c_pc,        \* position in main
    c_tool,      \* which script runs
    c_args,      \* the parsed arguments
    c_fault,     \* what goes wrong in this run
    c_persons,   \* how many persons the analysis finds when nothing goes wrong
    c_image_path, \* local `image_path`
    c_result,    \* local `result`
    c_stdout,    \* what was printed on standard output
    c_calls,     \* the functions main has called
    c_exit,      \* the exit status, once the process has ended
    c_uncaught,  \* the process ended on an exception nobody caught
    \* ---- one call of detect_persons (yolo-detector) ----
    y_pc,        \* position in the function
    y_exists,    \* os.path.exists(image_path)
    y_threshold, \* the argument confidence_threshold
    y_boxes,     \* result.boxes, what the model returns for the image
    y_k,         \* position of `for box in boxes`
    y_persons,   \* local `person_detections`
    y_result     \* the returned dict

mvars == <<m_pc, m_dets, m_thr, m_order, m_indices, m_out, m_pass, m_out1>>
svars == <<s_pc, s_w, s_h, s_size, s_overlap, s_y, s_x, s_slices>>

pvars == <<p_script, p_pc, p_image, p_slicing, p_slices, p_k, p_all, p_fullout, p_calls, p_result>>

bvars == <<b_pc, b_count, b_area, b_result, b_pass, b_prev>>

dvars == <<d_pc, d_exists, d_image, d_result>>

\* the variables of the functions modelled after the detection pipeline
cvars == <<c_pc, c_tool, c_args, c_fault, c_persons, c_image_path, c_result, c_stdout,
           c_calls, c_exit, c_uncaught>>

yvars == <<y_pc, y_exists, y_threshold, y_boxes, y_k, y_persons, y_result>>

xvars == <<bvars, dvars, cvars, yvars>>

vars == <<mvars, svars, pvars, xvars>>

-----------------------------------------------------------------------------
(* Bounds of the model *)

\* longest list of detections handed to the merger
MaxDets == 3

\* largest image side and largest slice_size given to slice_image alone
MaxSide == 5
MaxSlice == 3

\* largest person_count given to calculate_busyness
MaxCount == 220

\* most non-zero pixels of each mask of an image given to analyze_pixel_density
MaxMask == 12

\* most persons an analysis finds in a run of main
MaxPersons == 2

\* most boxes the model returns to detect_persons
MaxBoxes == 2

\* most detections the model returns over all tiles of an image, and for
\* the full image
MaxTileDets == 2
MaxFullDets == 1

-----------------------------------------------------------------------------
(* Helpers *)

Min(a, b) == IF a <= b THEN a ELSE b
Max(a, b) == IF a >= b THEN a ELSE b

Range(s) == {s[i] : i \in 1..Len(s)}

\* all sequences over S of length at most n
SeqUpTo(S, n) == UNION {[1..k -> S] : k \in 0..n}

\* number of positions of s holding e
Count(s, e) == Cardinality({i \in 1..Len(s) : s[i] = e})

\* s and t hold the same elements the same number of times
SameBag(s, t) ==
    /\ Len(s) = Len(t)
    /\ \A e \in Range(s) \cup Range(t) : Count(s, e) = Count(t, e)

-----------------------------------------------------------------------------
(* Python floats (IEEE 754 binary64, round to nearest, ties to even)       *)
(*                                                                         *)
(* A natural number is its sequence of limbs of LimbBits bits, least       *)
(* significant first, without zero limbs at the top.  A float is           *)
(* [m |-> limbs, e |-> exponent], standing for m * 2^e, where m has        *)
(* exactly Precision bits, or is <<>> for 0.0.  Only non-negative values   *)
(* in the normal range occur.  The operators on limbs are the integer      *)
(* arithmetic the float operations are made of.                            *)

\* bits of the significand of a binary64
Precision == 53

\* bits of one limb, and the limb base
LimbBits == 15
Pow2(k) == 2 ^ k
Base == Pow2(LimbBits)

RECURSIVE NatLimbs(_)
NatLimbs(n) == IF n = 0 THEN <<>> ELSE <<n % Base>> \o NatLimbs(n \div Base)

RECURSIVE LimbsNat(_)
LimbsNat(a) == IF a = <<>> THEN 0 ELSE a[1] + Base * LimbsNat(Tail(a))

RECURSIVE Trim(_)
Trim(a) == IF a = <<>> \/ a[Len(a)] # 0 THEN a ELSE Trim(SubSeq(a, 1, Len(a) - 1))

Zeros(k) == [i \in 1..k |-> 0]

Limb(a, i) == IF i <= Len(a) THEN a[i] ELSE 0

\* the number of bits of a
BitLen(a) ==
    IF a = <<>> THEN 0
    ELSE LimbBits * (Len(a) - 1)
            + (CHOOSE k \in 1..LimbBits : Pow2(k - 1) <= a[Len(a)] /\ a[Len(a)] < Pow2(k))

\* bit i of a, the lowest being bit 1
Bit(a, i) == (Limb(a, (i - 1) \div LimbBits + 1) \div Pow2((i - 1) % LimbBits)) % 2

\* limbs i.. of a + b, given the carry into limb i
RECURSIVE AddFrom(_, _, _, _)
AddFrom(a, b, i, carry) ==
    IF i > Len(a) /\ i > Len(b)
    THEN NatLimbs(carry)
    ELSE LET s == Limb(a, i) + Limb(b, i) + carry
         IN <<s % Base>> \o AddFrom(a, b, i + 1, s \div Base)

LAdd(a, b) == AddFrom(a, b, 1, 0)

\* limbs i.. of a - b (a >= b), given the borrow out of limb i - 1
RECURSIVE SubFrom(_, _, _, _)
SubFrom(a, b, i, borrow) ==
    IF i > Len(a)
    THEN <<>>
    ELSE LET s == a[i] - Limb(b, i) - borrow
         IN <<(s + Base) % Base>> \o SubFrom(a, b, i + 1, IF s < 0 THEN 1 ELSE 0)

LSub(a, b) == Trim(SubFrom(a, b, 1, 0))

\* limbs i.. of a * c for c < Base, given the carry into limb i
RECURSIVE MulFrom(_, _, _, _)
MulFrom(a, c, i, carry) ==
    IF i > Len(a)
    THEN NatLimbs(carry)
    ELSE LET s == a[i] * c + carry
         IN <<s % Base>> \o MulFrom(a, c, i + 1, s \div Base)

LMulSmall(a, c) == Trim(MulFrom(a, c, 1, 0))

\* a * (limbs j.. of b) * Base^(j-1)
RECURSIVE MulLimbs(_, _, _)
MulLimbs(a, b, j) ==
    IF j > Len(b)
    THEN <<>>
    ELSE LAdd(Zeros(j - 1) \o MulFrom(a, b[j], 1, 0), MulLimbs(a, b, j + 1))

LMul(a, b) == Trim(MulLimbs(a, b, 1))

\* quotient and remainder of limbs 1..i of a, on top of the remainder r of
\* the limbs above, by d < Base
RECURSIVE DivFrom(_, _, _, _)
DivFrom(a, d, i, r) ==
    IF i = 0
    THEN [q |-> <<>>, r |-> r]
    ELSE LET t == Base * r + a[i]
             low == DivFrom(a, d, i - 1, t % d)
         IN [q |-> Append(low.q, t \div d), r |-> low.r]

LDivSmall(a, d) ==
    LET qr == DivFrom(a, d, Len(a), 0) IN [q |-> Trim(qr.q), r |-> qr.r]

\* a <= b, decided on limbs 1..i when the limbs above are equal
RECURSIVE LeFrom(_, _, _)
LeFrom(a, b, i) ==
    IF i = 0 THEN TRUE
    ELSE IF a[i] # b[i] THEN a[i] < b[i]
    ELSE LeFrom(a, b, i - 1)

LLe(a, b) ==
    IF Len(a) # Len(b) THEN Len(a) < Len(b) ELSE LeFrom(a, b, Len(a))

\* a * 2^k
ShiftLeft(a, k) ==
    IF a = <<>> THEN a
    ELSE Zeros(k \div LimbBits) \o LMulSmall(a, Pow2(k % LimbBits))

\* a \div 2^k
ShiftRight(a, k) ==
    IF k \div LimbBits >= Len(a) THEN <<>>
    ELSE LDivSmall(SubSeq(a, k \div LimbBits + 1, Len(a)), Pow2(k % LimbBits)).q

\* a % 2^k # 0
LowBitsSet(a, k) ==
    \/ \E i \in 1..Min(k \div LimbBits, Len(a)) : a[i] # 0
    \/ Limb(a, k \div LimbBits + 1) % Pow2(k % LimbBits) # 0

\* the number of zero bits at the bottom of a # 0
LowZeros(a) == CHOOSE z \in 0..BitLen(a) : ~LowBitsSet(a, z) /\ Bit(a, z + 1) = 1

\* n * 2^e, plus less than 2^e more when sticky, rounded to a float
Round(n, e, sticky) ==
    LET s == BitLen(n) - Precision
    IN IF n = <<>> THEN [m |-> <<>>, e |-> 0]
       ELSE IF s <= 0 THEN [m |-> ShiftLeft(n, -s), e |-> e + s]
       ELSE LET q == ShiftRight(n, s)
                below == sticky \/ LowBitsSet(n, s - 1)
                up == Bit(n, s) = 1 /\ (below \/ Bit(q, 1) = 1)
                r == IF up THEN LAdd(q, <<1>>) ELSE q
            IN IF BitLen(r) > Precision
               THEN [m |-> ShiftRight(r, 1), e |-> e + s + 1]
               ELSE [m |-> r, e |-> e + s]

FromInt(n) == Round(NatLimbs(n), 0, FALSE)

\* the significand of x at the exponent e <= x.e
Aligned(x, e) == ShiftLeft(x.m, x.e - e)

FAdd(x, y) ==
    LET e == Min(x.e, y.e)
    IN IF x.m = <<>> THEN y
       ELSE IF y.m = <<>> THEN x
       ELSE Round(LAdd(Aligned(x, e), Aligned(y, e)), e, FALSE)

\* x - y, for x >= y
FSub(x, y) ==
    LET e == Min(x.e, y.e)
    IN IF y.m = <<>> THEN x
       ELSE Round(LSub(Aligned(x, e), Aligned(y, e)), e, FALSE)

FMul(x, y) ==
    IF x.m = <<>> \/ y.m = <<>> THEN [m |-> <<>>, e |-> 0]
    ELSE Round(LMul(x.m, y.m), x.e + y.e, FALSE)

\* x / y, for a divisor y = d * 2^k with an odd d < Base
FDiv(x, y) ==
    LET z == LowZeros(y.m)
        d == LimbsNat(ShiftRight(y.m, z))
        qr == LDivSmall(ShiftLeft(x.m, LimbBits + 2), d)
    IN IF x.m = <<>> THEN x
       ELSE Round(qr.q, x.e - (LimbBits + 2) - y.e - z, qr.r # 0)

\* x <= y; the mutant leaves out equality
FLeStrict(x, y) ==
    LET e == Min(x.e, y.e)
    IN IF x.m = <<>> THEN y.m # <<>>
       ELSE IF y.m = <<>> THEN FALSE
       ELSE x # y /\ LLe(Aligned(x, e), Aligned(y, e))

FLe(x, y) ==
    LET e == Min(x.e, y.e)
    IN IF x.m = <<>> THEN TRUE
       ELSE IF y.m = <<>> THEN FALSE
       ELSE LLe(Aligned(x, e), Aligned(y, e))

FLt(x, y) == ~FLe(y, x)

\* int(x): the integer part
FInt(x) ==
    IF x.m = <<>> THEN 0
    ELSE IF x.e >= 0 THEN LimbsNat(Aligned(x, 0))
    ELSE LimbsNat(ShiftRight(x.m, -x.e))

\* the float written as the decimal literal num/den
FLit(num, den) == FDiv(FromInt(num), FromInt(den))

-----------------------------------------------------------------------------
(* Values the inputs are drawn from *)

\* A, B, C: a chain (A~B, B~C overlap above 0.4 and 0.5, A~C does not);
\* D: IoU with A exactly 50/100; Z: a box of zero area
BoxA == <<0, 0, 10, 10>>
BoxB == <<2, 0, 12, 10>>
BoxC == <<5, 0, 15, 10>>
BoxD == <<0, 0, 10, 5>>
BoxZ == <<5, 5, 5, 5>>
MergeBoxes == {BoxA, BoxB, BoxC, BoxD, BoxZ}

\* 0.15 (the pipelines' confidence floor) and 0.8766
Confidences == {1500, 8766}

\* 0.0, 0.4 (pipelines, nms_merge default), 0.5 (merge_detections default), 1.0
IouThresholds == {[num |-> 0, den |-> 1], [num |-> 2, den |-> 5],
                  [num |-> 1, den |-> 2], [num |-> 1, den |-> 1]}

MergeDetections == {[bbox |-> b, confidence |-> c] : b \in MergeBoxes, c \in Confidences}

-----------------------------------------------------------------------------
(* slice_image (beach-detector.py and pi-detector.py: the same code up to  *)
(* the default values of slice_size and overlap).                          *)

\* overlap fractions: 0, 0.25 (the pipelines' value), 0.5, 0.75: dyadic
\* values, on which slice_size * (1 - overlap) is exact in float64
Overlaps == {[num |-> 0, den |-> 4], [num |-> 1, den |-> 4],
             [num |-> 2, den |-> 4], [num |-> 3, den |-> 4]}

\* stride = int(slice_size * (1 - overlap)), for 0 <= overlap < 1
Stride(slice_size, overlap) == (slice_size * (overlap.den - overlap.num)) \div overlap.den

\* list(range(0, stop, step)) for step > 0
RangeList(stop, step) == [k \in 1..((stop + step - 1) \div step) |-> (k - 1) * step]

\* (mutant) the window is not pulled back to full size at the far edge
TileAtTruncated(x, y, w, h, slice_size) ==
    LET x_end == Min(x + slice_size, w)
        y_end == Min(y + slice_size, h)
    IN [offset |-> <<x, y>>, shape |-> <<y_end - y, x_end - x>>]

\* the body of the inner loop: the dict appended for position (x, y);
\* 'image' is represented by its shape (rows, columns)
TileAt(x, y, w, h, slice_size) ==
    LET x_end == Min(x + slice_size, w)
        y_end == Min(y + slice_size, h)
        x_start == Max(0, x_end - slice_size)
        y_start == Max(0, y_end - slice_size)
    IN [offset |-> <<x_start, y_start>>, shape |-> <<y_end - y_start, x_end - x_start>>]

\* the slice_image call is not running
SliceIdle ==
    /\ s_pc = "idle"
    /\ s_w = 1
    /\ s_h = 1
    /\ s_size = 1
    /\ s_overlap = [num |-> 0, den |-> 4]
    /\ s_y = 0
    /\ s_x = 0
    /\ s_slices = <<>>

SliceInit ==
    /\ s_pc = "call"
    /\ s_w \in 1..MaxSide
    /\ s_h \in 1..MaxSide
    /\ s_size \in 1..MaxSlice
    /\ s_overlap \in Overlaps
    /\ s_y = 0
    /\ s_x = 0
    /\ s_slices = <<>>

\* h, w, stride, `slices = []`, and the first range(0, h, stride); the
\* image is not empty, so the first range(0, w, stride) follows at once
SliceEnter ==
    /\ s_pc = "call"
    /\ Stride(s_size, s_overlap) > 0
    /\ s_pc' = "loop"
    /\ UNCHANGED <<s_w, s_h, s_size, s_overlap, s_y, s_x, s_slices>>
    /\ UNCHANGED <<mvars, pvars, xvars>>

\* range(0, h, 0) raises ValueError: range() arg 3 must not be zero
SliceRaise ==
    /\ s_pc = "call"
    /\ Stride(s_size, s_overlap) = 0
    /\ s_pc' = "ValueError"
    /\ UNCHANGED <<s_w, s_h, s_size, s_overlap, s_y, s_x, s_slices>>
    /\ UNCHANGED <<mvars, pvars, xvars>>

\* one iteration of the inner loop, and the step to the next (x, y)
SliceTile ==
    /\ s_pc = "loop"
    /\ LET stride == Stride(s_size, s_overlap)
           ys == RangeList(s_h, stride)
           xs == RangeList(s_w, stride)
       IN /\ s_slices' = Append(s_slices, TileAt(xs[s_x + 1], ys[s_y + 1], s_w, s_h, s_size))
          /\ IF s_x + 1 < Len(xs)
               THEN s_x' = s_x + 1 /\ UNCHANGED <<s_y, s_pc>>
               ELSE IF s_y + 1 < Len(ys)
                      THEN s_x' = 0 /\ s_y' = s_y + 1 /\ UNCHANGED s_pc
                      ELSE s_pc' = "done" /\ UNCHANGED <<s_x, s_y>>
    /\ UNCHANGED <<s_w, s_h, s_size, s_overlap>>
    /\ UNCHANGED <<mvars, pvars, xvars>>

SliceNext ==
    \/ SliceEnter
    \/ SliceRaise
    \/ SliceTile

\* the whole call, for a stride > 0: the tiles in the order they are appended
slice_image(w, h, slice_size, overlap) ==
    LET stride == Stride(slice_size, overlap)
        ys == RangeList(h, stride)
        xs == RangeList(w, stride)
    IN [k \in 1..(Len(ys) * Len(xs)) |->
            TileAt(xs[((k - 1) % Len(xs)) + 1], ys[((k - 1) \div Len(xs)) + 1], w, h, slice_size)]


-----------------------------------------------------------------------------
(* merge_detections (beach-detector.py) / nms_merge (pi-detector.py):      *)
(* the two functions are the same code up to names and the default value   *)
(* of iou_threshold.                                                       *)

\* the guard 1e-6 of the IoU denominator is 1 / EpsInv
EpsInv == 1000000

\* (boxes[i,2] - boxes[i,0]) * (boxes[i,3] - boxes[i,1])
Area(b) == (b[3] - b[1]) * (b[4] - b[2])

\* inter = w * h with w = max(0, xx2 - xx1), h = max(0, yy2 - yy1)
Inter(a, b) ==
    LET xx1 == Max(a[1], b[1])
        yy1 == Max(a[2], b[2])
        xx2 == Min(a[3], b[3])
        yy2 == Min(a[4], b[4])
        w == Max(0, xx2 - xx1)
        h == Max(0, yy2 - yy1)
    IN w * h

\* (mutant) the union taken as area_i + area_rest, the intersection not subtracted
IouAtMostNoUnion(a, b, thr) ==
    Inter(a, b) * thr.den - thr.num * (Area(a) + Area(b)) <= thr.num \div EpsInv

\* iou <= iou_threshold, for iou = inter / (area_i + area_rest - inter + 1e-6).
\* With u = area_i + area_rest - inter >= 0 (x1 <= x2, y1 <= y2) the quotient
\* is at most num/den iff inter * den * EpsInv <= num * (u * EpsInv + 1), iff
\* (inter * den - num * u) * EpsInv <= num, iff the integer on the left is at
\* most floor(num / EpsInv).
IouAtMost(a, b, thr) ==
    Inter(a, b) * thr.den - thr.num * (Area(a) + Area(b) - Inter(a, b)) <= thr.num \div EpsInv

\* iou > iou_threshold
IouAbove(a, b, thr) == ~IouAtMost(a, b, thr)

\* the sequences listing every index of I once, by non-increasing key
RECURSIVE OrdersOf(_, _)
OrdersOf(I, key) ==
    IF I = {} THEN {<<>>}
    ELSE UNION {{<<i>> \o o : o \in OrdersOf(I \ {i}, key)} :
                  i \in {i \in I : \A j \in I : key[i] >= key[j]}}

\* (mutant) scores.argsort() without the reversal: ascending scores
ArgsortAscending(dets) ==
    OrdersOf(1..Len(dets), [i \in 1..Len(dets) |-> 0 - dets[i].confidence])

\* scores.argsort()[::-1]: the indices in an order of non-increasing score.
\* numpy's default sort kind is not stable, so the order among equal scores
\* is whatever the build's sort produces: every such order is possible.
Argsort(dets) ==
    OrdersOf(1..Len(dets), [i \in 1..Len(dets) |-> dets[i].confidence])

\* (mutant) nothing is suppressed
RemainingKeepAll(order, dets, thr) == Tail(order)

\* (mutant) iou computed against boxes[order[:-1]] instead of boxes[order[1:]]
RemainingMisaligned(order, dets, thr) ==
    LET i == Head(order)
        keep == {k \in 2..Len(order) : IouAtMost(dets[i].bbox, dets[order[k - 1]].bbox, thr)}
        F[k \in 1..(Len(order) + 1)] ==
            IF k > Len(order) THEN <<>>
            ELSE IF k \in keep THEN <<order[k]>> \o F[k + 1] ELSE F[k + 1]
    IN F[2]

\* (mutant) np.where(iou > iou_threshold): the overlapping ones stay
RemainingInverted(order, dets, thr) ==
    LET i == Head(order)
        keep == {k \in 2..Len(order) : ~IouAtMost(dets[i].bbox, dets[order[k]].bbox, thr)}
        F[k \in 1..(Len(order) + 1)] ==
            IF k > Len(order) THEN <<>>
            ELSE IF k \in keep THEN <<order[k]>> \o F[k + 1] ELSE F[k + 1]
    IN F[2]

\* (mutant) the current detection stays in `order`
RemainingWithCurrent(order, dets, thr) == order

\* order[remaining + 1] with remaining = np.where(iou <= iou_threshold)[0],
\* iou computed between boxes[i], i = order[0], and boxes[order[1:]]
Remaining(order, dets, thr) ==
    LET i == Head(order)
    IN SelectSeq(Tail(order), LAMBDA j : IouAtMost(dets[i].bbox, dets[j].bbox, thr))

\* (mutant) [detections[indices[0]] for i in indices]
GatherFirst(dets, indices) == [k \in 1..Len(indices) |-> dets[indices[1]]]

\* [detections[i] for i in indices]
Gather(dets, indices) == [k \in 1..Len(indices) |-> dets[indices[k]]]

\* the merger is not running
MergeIdle ==
    /\ m_pc = "idle"
    /\ m_dets = <<>>
    /\ m_thr = [num |-> 2, den |-> 5]
    /\ m_order = <<>>
    /\ m_indices = <<>>
    /\ m_out = <<>>
    /\ m_pass = 1
    /\ m_out1 = <<>>

MergeInit ==
    /\ m_pc = "call"
    /\ m_dets \in SeqUpTo(MergeDetections, MaxDets)
    /\ m_thr \in IouThresholds
    /\ m_order = <<>>
    /\ m_indices = <<>>
    /\ m_out = <<>>
    /\ m_pass = 1
    /\ m_out1 = <<>>

\* `if not detections: return []`
MergeEmpty ==
    /\ m_pc = "call"
    /\ m_dets = <<>>
    /\ m_out' = <<>>
    /\ m_pc' = "done"
    /\ UNCHANGED <<m_dets, m_thr, m_order, m_indices, m_pass, m_out1>>
    /\ UNCHANGED <<svars, pvars, xvars>>

\* boxes, scores, `indices = []`, `order = scores.argsort()[::-1]`
MergeSort ==
    /\ m_pc = "call"
    /\ m_dets # <<>>
    /\ \E o \in Argsort(m_dets) : m_order' = o
    /\ m_indices' = <<>>
    /\ m_pc' = "loop"
    /\ UNCHANGED <<m_dets, m_thr, m_out, m_pass, m_out1>>
    /\ UNCHANGED <<svars, pvars, xvars>>

\* one iteration of `while len(order) > 0`
MergeIterate ==
    /\ m_pc = "loop"
    /\ Len(m_order) > 0
    /\ m_indices' = Append(m_indices, Head(m_order))
    /\ IF Len(m_order) = 1
         THEN \* break
              /\ m_pc' = "return"
              /\ UNCHANGED m_order
         ELSE /\ m_order' = Remaining(m_order, m_dets, m_thr)
              /\ m_pc' = "loop"
    /\ UNCHANGED <<m_dets, m_thr, m_out, m_pass, m_out1>>
    /\ UNCHANGED <<svars, pvars, xvars>>

\* the loop condition fails: everything left was suppressed
MergeLoopExit ==
    /\ m_pc = "loop"
    /\ Len(m_order) = 0
    /\ m_pc' = "return"
    /\ UNCHANGED <<m_dets, m_thr, m_order, m_indices, m_out, m_pass, m_out1>>
    /\ UNCHANGED <<svars, pvars, xvars>>

\* `return [detections[i] for i in indices]`
MergeReturn ==
    /\ m_pc = "return"
    /\ m_out' = Gather(m_dets, m_indices)
    /\ m_order' = <<>>
    /\ m_indices' = <<>>
    /\ m_pc' = "done"
    /\ UNCHANGED <<m_dets, m_thr, m_pass, m_out1>>
    /\ UNCHANGED <<svars, pvars, xvars>>

\* the merger applied to its own result, as the pipelines do when the final
\* merge receives the merged tile detections
MergeAgain ==
    /\ m_pc = "done"
    /\ m_pass = 1
    /\ m_out1' = m_out
    /\ m_dets' = m_out
    /\ m_pass' = 2
    /\ m_order' = <<>>
    /\ m_indices' = <<>>
    /\ m_out' = <<>>
    /\ m_pc' = "call"
    /\ UNCHANGED m_thr
    /\ UNCHANGED <<svars, pvars, xvars>>

MergeNext ==
    \/ MergeEmpty
    \/ MergeSort
    \/ MergeIterate
    \/ MergeLoopExit
    \/ MergeReturn
    \/ MergeAgain

\* the whole loop, from a given `order`: the final `indices`
RECURSIVE NmsLoop(_, _, _, _)
NmsLoop(order, indices, dets, thr) ==
    IF Len(order) = 0 THEN indices
    ELSE IF Len(order) = 1 THEN Append(indices, Head(order))
    ELSE NmsLoop(Remaining(order, dets, thr), Append(indices, Head(order)), dets, thr)

\* beach-detector.py: merge_detections, for the order its argsort gave
merge_detections(all_detections, iou_threshold, order) ==
    IF all_detections = <<>> THEN <<>>
    ELSE Gather(all_detections, NmsLoop(order, <<>>, all_detections, iou_threshold))

\* pi-detector.py: nms_merge, for the order its argsort gave
nms_merge(detections, iou_threshold, order) ==
    IF detections = <<>> THEN <<>>
    ELSE Gather(detections, NmsLoop(order, <<>>, detections, iou_threshold))

-----------------------------------------------------------------------------
(* detect_beach_crowd (beach-detector.py) and detect (pi-detector.py).     *)
(* The YOLO model is an external collaborator: called on an image region,  *)
(* it returns boxes inside that region, each with a confidence at or above *)
(* the floor it was given. It is a function of the region's pixels; on the *)
(* full image, given twice, it returns the same list twice.                *)

Scripts == {"beach-detector", "pi-detector"}

\* cv2.imread returned None
NoImage == <<>>

\* <<w, h>>: below, at and above the 1280 threshold, in either direction
Images == {<<640, 480>>, <<1280, 720>>, <<1281, 480>>, <<480, 1281>>}

\* `w > 1280 or h > 1280`
LargeSide == 1280

\* slice_image(image, slice_size=640, overlap=0.25); pi-detector: SLICE_SIZE, SLICE_OVERLAP
SLICE_SIZE == 640
SLICE_OVERLAP == [num |-> 1, den |-> 4]

\* iou_threshold=0.4 of both merges (pi-detector: the default of nms_merge)
PipelineIou == [num |-> 2, den |-> 5]

\* boxes the model may report, in the coordinates of the region it is given;
\* the first, seen in a tile at offset 0, and the second, seen in a tile at
\* offset 480, are the same place of the image
TileBoxes == {<<500, 100, 640, 480>>, <<20, 100, 160, 480>>, <<100, 500, 200, 640>>}
\* the last one is a box of zero area
FullBoxes == {<<500, 100, 640, 480>>, <<100, 50, 400, 450>>, <<300, 300, 300, 300>>}

\* the boxes of B lying inside a region of `shape` = (rows, columns)
BoxesInside(B, shape) == {b \in B : b[1] >= 0 /\ b[2] >= 0 /\ b[3] <= shape[2] /\ b[4] <= shape[1]}

\* what model(region, conf=confidence, classes=[0]) may return: a list of at
\* most n boxes of B inside the region, with their confidences
ModelOutputs(B, shape, n) ==
    SeqUpTo({[xyxy |-> b, conf |-> c] : b \in BoxesInside(B, shape), c \in Confidences}, n)

\* (mutant) the offset added with x and y exchanged
TranslateSwapped(xyxy, offset) ==
    <<xyxy[1] + offset[2], xyxy[2] + offset[1], xyxy[3] + offset[2], xyxy[4] + offset[1]>>

\* [x1 + ox, y1 + oy, x2 + ox, y2 + oy]
Translate(xyxy, offset) ==
    <<xyxy[1] + offset[1], xyxy[2] + offset[2], xyxy[3] + offset[1], xyxy[4] + offset[2]>>

\* the dict appended to all_detections for a box at `offset`
\* (beach-detector adds 'class': 'person')
Detection(script, box, offset) ==
    IF script = "beach-detector"
      THEN [bbox |-> Translate(box.xyxy, offset), confidence |-> box.conf, class |-> "person"]
      ELSE [bbox |-> Translate(box.xyxy, offset), confidence |-> box.conf]

\* the dicts appended for the boxes of one result, in order
Detections(script, boxes, offset) ==
    [i \in 1..Len(boxes) |-> Detection(script, boxes[i], offset)]

\* the merge each script calls
Merge(script, dets, order) ==
    IF script = "beach-detector"
      THEN merge_detections(dets, PipelineIou, order)
      ELSE nms_merge(dets, PipelineIou, order)

\* (mutant) sorted without reverse=True
SortedByConfidenceAscending(dets) ==
    LET RECURSIVE Ins(_, _)
        Ins(sorted, d) ==
            IF sorted = <<>> THEN <<d>>
            ELSE IF Head(sorted).confidence <= d.confidence
                   THEN <<Head(sorted)>> \o Ins(Tail(sorted), d)
                   ELSE <<d>> \o sorted
        RECURSIVE Go(_, _)
        Go(sorted, rest) == IF rest = <<>> THEN sorted ELSE Go(Ins(sorted, Head(rest)), Tail(rest))
    IN Go(<<>>, dets)

\* all_detections.sort(key=lambda x: x['confidence'], reverse=True): a stable
\* sort, equal confidences stay in their order
SortedByConfidence(dets) ==
    LET RECURSIVE Ins(_, _)
        Ins(sorted, d) ==
            IF sorted = <<>> THEN <<d>>
            ELSE IF Head(sorted).confidence >= d.confidence
                   THEN <<Head(sorted)>> \o Ins(Tail(sorted), d)
                   ELSE <<d>> \o sorted
        RECURSIVE Go(_, _)
        Go(sorted, rest) == IF rest = <<>> THEN sorted ELSE Go(Ins(sorted, Head(rest)), Tail(rest))
    IN Go(<<>>, dets)

\* round(num / den, 3) in units of 1/10000: the nearest multiple of 10
\* (no value of the model lies halfway between two)
Round3(num, den) == ((2 * num + 10 * den) \div (20 * den)) * 10

SumConfidence(dets) ==
    LET RECURSIVE S(_)
        S(k) == IF k = 0 THEN 0 ELSE dets[k].confidence + S(k - 1)
    IN S(Len(dets))

MinConfidence(dets) ==
    CHOOSE c \in {dets[i].confidence : i \in 1..Len(dets)} :
        \A i \in 1..Len(dets) : c <= dets[i].confidence

MaxConfidence(dets) ==
    CHOOSE c \in {dets[i].confidence : i \in 1..Len(dets)} :
        \A i \in 1..Len(dets) : dets[i].confidence <= c

\* the min / max / avg_confidence entries of the result
ConfidenceStats(dets) ==
    IF dets = <<>>
      THEN [min_confidence |-> 0, max_confidence |-> 0, avg_confidence |-> 0]
      ELSE [min_confidence |-> Round3(MinConfidence(dets), 1),
            max_confidence |-> Round3(MaxConfidence(dets), 1),
            avg_confidence |-> Round3(SumConfidence(dets), Len(dets))]

\* nothing returned yet
NoResult == [returned |-> FALSE]

\* the model has not been given the full image yet
FullUnknown == [known |-> FALSE, boxes |-> <<>>]

\* no pipeline is running
PipeIdle ==
    /\ p_script = "beach-detector"
    /\ p_pc = "idle"
    /\ p_image = NoImage
    /\ p_slicing = FALSE
    /\ p_slices = <<>>
    /\ p_k = 1
    /\ p_all = <<>>
    /\ p_fullout = FullUnknown
    /\ p_calls = <<>>
    /\ p_result = NoResult

PipeInit ==
    /\ p_script \in Scripts
    /\ p_pc = "call"
    /\ p_image \in Images \cup {NoImage}
    /\ p_slicing \in BOOLEAN
    /\ p_slices = <<>>
    /\ p_k = 1
    /\ p_all = <<>>
    /\ p_fullout = FullUnknown
    /\ p_calls = <<>>
    /\ p_result = NoResult

\* `w > 1280 or h > 1280`
IsLarge(image) == image[1] > LargeSide \/ image[2] > LargeSide

\* YOLO(model_path) raises: nothing in the function catches it
LoadModelRaises ==
    /\ p_pc = "call"
    /\ p_pc' = "exception"
    /\ UNCHANGED <<p_script, p_image, p_slicing, p_slices, p_k, p_all, p_fullout, p_calls, p_result>>
    /\ UNCHANGED <<mvars, svars, xvars>>

\* `if image is None: return {"success": False, "error": ...}`
ImageNotLoaded ==
    /\ p_pc = "call"
    /\ p_image = NoImage
    /\ p_result' = [success |-> FALSE, error |-> "Could not load image"]
    /\ p_pc' = "done"
    /\ UNCHANGED <<p_script, p_image, p_slicing, p_slices, p_k, p_all, p_fullout, p_calls>>
    /\ UNCHANGED <<mvars, svars, xvars>>

\* model and image loaded; `all_detections = []`; the branch on
\* `use_slicing and (w > 1280 or h > 1280)`, and slice_image in it
ImageLoaded ==
    /\ p_pc = "call"
    /\ p_image # NoImage
    /\ p_all' = <<>>
    /\ IF p_slicing /\ IsLarge(p_image)
         THEN /\ p_slices' = slice_image(p_image[1], p_image[2], SLICE_SIZE, SLICE_OVERLAP)
              /\ p_k' = 1
              /\ p_pc' = "tiles"
         ELSE /\ UNCHANGED <<p_slices, p_k>>
              /\ p_pc' = IF p_script = "beach-detector" THEN "direct" ELSE "full"
    /\ UNCHANGED <<p_script, p_image, p_slicing, p_fullout, p_calls, p_result>>
    /\ UNCHANGED <<mvars, svars, xvars>>

\* number of boxes the model has returned for tiles so far
TileDetsSoFar ==
    LET RECURSIVE N(_)
        N(k) == IF k = 0 THEN 0
                ELSE (IF p_calls[k].region = "tile" THEN Len(p_calls[k].boxes) ELSE 0) + N(k - 1)
    IN N(Len(p_calls))

\* one iteration of `for slice_data in slices`: the model on the tile, its
\* boxes appended at the tile's offset
DetectTile ==
    /\ p_pc = "tiles"
    /\ p_k <= Len(p_slices)
    /\ LET tile == p_slices[p_k]
       IN \E boxes \in ModelOutputs(TileBoxes, tile.shape, Min(1, MaxTileDets - TileDetsSoFar)) :
            /\ p_calls' = Append(p_calls, [region |-> "tile", offset |-> tile.offset,
                                           shape |-> tile.shape, boxes |-> boxes])
            /\ p_all' = p_all \o Detections(p_script, boxes, tile.offset)
    /\ p_k' = p_k + 1
    /\ p_pc' = IF p_k = Len(p_slices) THEN "merge_tiles" ELSE "tiles"
    /\ UNCHANGED <<p_script, p_image, p_slicing, p_slices, p_fullout, p_result>>
    /\ UNCHANGED <<mvars, svars, xvars>>

\* `all_detections = merge_detections(all_detections, iou_threshold=0.4)`
\* (pi-detector: nms_merge(all_detections)) after the loop over the tiles
MergeTiles ==
    /\ p_pc = "merge_tiles"
    /\ \E order \in Argsort(p_all) : p_all' = Merge(p_script, p_all, order)
    /\ p_pc' = "full"
    /\ UNCHANGED <<p_script, p_image, p_slicing, p_slices, p_k, p_fullout, p_calls, p_result>>
    /\ UNCHANGED <<mvars, svars, xvars>>

\* what the model may return for the full image
FullOutputs ==
    IF ~p_fullout.known
      THEN ModelOutputs(FullBoxes, <<p_image[2], p_image[1]>>, MaxFullDets)
      ELSE {p_fullout.boxes}

FullCall(boxes) ==
    [region |-> "full", offset |-> <<0, 0>>, shape |-> <<p_image[2], p_image[1]>>, boxes |-> boxes]

\* beach-detector only, the else branch: "Direct detection for smaller images"
DetectDirect ==
    /\ p_pc = "direct"
    /\ \E boxes \in FullOutputs :
         /\ p_fullout' = [known |-> TRUE, boxes |-> boxes]
         /\ p_calls' = Append(p_calls, FullCall(boxes))
         /\ p_all' = p_all \o Detections(p_script, boxes, <<0, 0>>)
    /\ p_pc' = "full"
    /\ UNCHANGED <<p_script, p_image, p_slicing, p_slices, p_k, p_result>>
    /\ UNCHANGED <<mvars, svars, xvars>>

\* the full-image detection both scripts run in every case
DetectFull ==
    /\ p_pc = "full"
    /\ \E boxes \in FullOutputs :
         /\ p_fullout' = [known |-> TRUE, boxes |-> boxes]
         /\ p_calls' = Append(p_calls, FullCall(boxes))
         /\ p_all' = p_all \o Detections(p_script, boxes, <<0, 0>>)
    /\ p_pc' = "final_merge"
    /\ UNCHANGED <<p_script, p_image, p_slicing, p_slices, p_k, p_result>>
    /\ UNCHANGED <<mvars, svars, xvars>>

\* a call of the model raises: nothing in the function catches it
DetectRaises ==
    /\ p_pc \in {"tiles", "direct", "full"}
    /\ p_pc' = "exception"
    /\ UNCHANGED <<p_script, p_image, p_slicing, p_slices, p_k, p_all, p_fullout, p_calls, p_result>>
    /\ UNCHANGED <<mvars, svars, xvars>>

\* "Final NMS to remove duplicates" / "Final merge"
FinalMerge ==
    /\ p_pc = "final_merge"
    /\ \E order \in Argsort(p_all) : p_all' = Merge(p_script, p_all, order)
    /\ p_pc' = "merged"
    /\ UNCHANGED <<p_script, p_image, p_slicing, p_slices, p_k, p_fullout, p_calls, p_result>>
    /\ UNCHANGED <<mvars, svars, xvars>>

\* beach-detector: sort by confidence, statistics, the result dict
\* (visualize=False, the default: no annotated image is written)
BeachReturn ==
    /\ p_pc = "merged"
    /\ p_script = "beach-detector"
    /\ LET sorted == SortedByConfidence(p_all)
           stats == ConfidenceStats(sorted)
       IN /\ p_all' = sorted
          /\ p_result' = [success |-> TRUE,
                          image_size |-> [width |-> p_image[1], height |-> p_image[2]],
                          slicing_enabled |-> p_slicing,
                          total_persons |-> Len(sorted),
                          min_confidence |-> stats.min_confidence,
                          max_confidence |-> stats.max_confidence,
                          avg_confidence |-> stats.avg_confidence,
                          persons |-> sorted]
    /\ p_pc' = "done"
    /\ UNCHANGED <<p_script, p_image, p_slicing, p_slices, p_k, p_fullout, p_calls>>
    /\ UNCHANGED <<mvars, svars, xvars>>

\* pi-detector: statistics, the result dict
PiReturn ==
    /\ p_pc = "merged"
    /\ p_script = "pi-detector"
    /\ LET stats == ConfidenceStats(p_all)
       IN p_result' = [success |-> TRUE,
                       person_count |-> Len(p_all),
                       min_confidence |-> stats.min_confidence,
                       max_confidence |-> stats.max_confidence,
                       avg_confidence |-> stats.avg_confidence]
    /\ p_pc' = "done"
    /\ UNCHANGED <<p_script, p_image, p_slicing, p_slices, p_k, p_all, p_fullout, p_calls>>
    /\ UNCHANGED <<mvars, svars, xvars>>

PipeNext ==
    \/ LoadModelRaises
    \/ ImageNotLoaded
    \/ ImageLoaded
    \/ DetectTile
    \/ MergeTiles
    \/ DetectDirect
    \/ DetectFull
    \/ DetectRaises
    \/ FinalMerge
    \/ BeachReturn
    \/ PiReturn

\* the lists of `dets` concatenated
Concat(dets) ==
    LET RECURSIVE C(_)
        C(k) == IF k = 0 THEN <<>> ELSE C(k - 1) \o dets[k]
    IN C(Len(dets))

\* the person counts a script may report (total_persons / person_count) for
\* an image, a slicing flag and a model that returns tiles[k].boxes for the
\* k-th tile and `full` for the whole image: the function as a whole, one
\* count for each order numpy may give to equal scores
PersonCounts(script, image, slicing, tiles, full) ==
    LET onTiles == Concat([k \in 1..Len(tiles) |-> Detections(script, tiles[k].boxes, tiles[k].offset)])
        onFull == Detections(script, full, <<0, 0>>)
        first == IF slicing /\ IsLarge(image)
                   THEN {Merge(script, onTiles, order) : order \in Argsort(onTiles)}
                   ELSE IF script = "beach-detector" THEN {onFull} ELSE {<<>>}
        all == {f \o onFull : f \in first}
        final == UNION {{Merge(script, a, order) : order \in Argsort(a)} : a \in all}
    IN {Len(f) : f \in final}

-----------------------------------------------------------------------------
(* calculate_busyness (pi-detector)                                        *)

\* the values of --beach-area tried; 5000 is the default
BeachAreas == {100, 5000}

\* round(x, ndigits), as the number of units of 1 / scale (scale = 10^ndigits):
\* the decimal nearest to the exact value of the float, ties to even
RoundDecimals(x, scale) ==
    LET n == LMulSmall(x.m, scale)
        k == -x.e
        q == ShiftRight(n, k)
        up == Bit(n, k) = 1 /\ (LowBitsSet(n, k - 1) \/ Bit(q, 1) = 1)
    IN IF x.m = <<>> THEN 0
       ELSE IF k <= 0 THEN LimbsNat(ShiftLeft(n, -k))
       ELSE LimbsNat(q) + (IF up THEN 1 ELSE 0)

Round2(x) == RoundDecimals(x, 100)

\* density = (person_count / beach_area_sqm) * 100
Density(person_count, beach_area_sqm) ==
    FMul(FDiv(FromInt(person_count), FromInt(beach_area_sqm)), FromInt(100))

\* the score of each branch
QuietScore(density) ==
    FInt(FMul(FDiv(density, FLit(1, 2)), FromInt(25)))

ModerateScore(density) ==
    FInt(FAdd(FromInt(25),
              FMul(FDiv(FSub(density, FLit(1, 2)), FLit(3, 2)), FromInt(25))))

BusyScore(density) ==
    FInt(FAdd(FromInt(50),
              FMul(FDiv(FSub(density, FromInt(2)), FromInt(2)), FromInt(25))))

\* min(100, s), and two wrong ways to treat a score over 100
Uncapped(s) == s
CappedToZero(s) == IF s > 100 THEN 0 ELSE s
Capped(s) == Min(100, s)

VeryBusyScore(density) ==
    Capped(FInt(FAdd(FromInt(75),
                     FMul(FDiv(FSub(density, FromInt(4)), FromInt(4)), FromInt(25)))))

calculate_busyness(person_count, beach_area_sqm) ==
    LET density == Density(person_count, beach_area_sqm)
        level == IF FLe(density, FLit(1, 2)) THEN "quiet"
                 ELSE IF FLe(density, FromInt(2)) THEN "moderate"
                 ELSE IF FLe(density, FromInt(4)) THEN "busy"
                 ELSE "very_busy"
        score == CASE level = "quiet" -> QuietScore(density)
                   [] level = "moderate" -> ModerateScore(density)
                   [] level = "busy" -> BusyScore(density)
                   [] level = "very_busy" -> VeryBusyScore(density)
    IN [score |-> score, level |-> level, density |-> Round2(density)]

\* nothing returned yet
NoBusyness == [returned |-> FALSE]
NoCall == [called |-> FALSE]

BusyIdle ==
    /\ b_pc = "idle"
    /\ b_count = 0
    /\ b_area = 0
    /\ b_result = NoBusyness
    /\ b_pass = 0
    /\ b_prev = NoCall

\* a call with a person count and a beach area
BusyInit ==
    /\ b_pc = "call"
    /\ b_count \in 0..MaxCount
    /\ b_area \in BeachAreas
    /\ b_result = NoBusyness
    /\ b_pass = 1
    /\ b_prev = NoCall

\* the call returns
BusyCall ==
    /\ b_pc = "call"
    /\ b_result' = calculate_busyness(b_count, b_area)
    /\ b_pc' = "done"
    /\ UNCHANGED <<b_count, b_area, b_pass, b_prev>>
    /\ UNCHANGED <<mvars, svars, pvars, dvars, cvars, yvars>>

\* a second call for the same area, with the same count or one person more
BusyAgain ==
    /\ b_pc = "done"
    /\ b_pass = 1
    /\ \E c \in {b_count, b_count + 1} :
        /\ c <= MaxCount
        /\ b_count' = c
    /\ b_prev' = [called |-> TRUE, person_count |-> b_count, result |-> b_result]
    /\ b_result' = NoBusyness
    /\ b_pass' = 2
    /\ b_pc' = "call"
    /\ UNCHANGED b_area
    /\ UNCHANGED <<mvars, svars, pvars, dvars, cvars, yvars>>

BusyNext ==
    \/ BusyCall
    \/ BusyAgain

-----------------------------------------------------------------------------
(* analyze_pixel_density (pixel-density-analyzer)                          *)
(*                                                                         *)
(* An image is what the function measures on it: its shape and the number  *)
(* of non-zero pixels of the skin mask, the bright mask and the edge map.  *)
(* The result keeps the fields derived from them; a confidence c stands    *)
(* for the float c / 10000 and a percentage rounded to 3 places is its     *)
(* number of thousandths.                                                  *)

\* shapes <<width, height>> of the images analysed
DensityShapes == {<<4, 2>>, <<10, 10>>, <<40, 25>>}

\* the images of a shape: every number of pixels up to MaxMask in each mask
ImagesOfShape(sh) ==
    LET counts == 0..Min(sh[1] * sh[2], MaxMask)
    IN {[shape |-> sh, skin |-> s, bright |-> b, edge |-> e] :
            s \in counts, b \in counts, e \in counts}

DensityImages == UNION {ImagesOfShape(sh) : sh \in DensityShapes}

\* cv2.imread returned None
NoPixels == [shape |-> <<>>]

\* (pixels / total_pixels) * 100
Percentage(pixels, total_pixels) ==
    FMul(FDiv(FromInt(pixels), FromInt(total_pixels)), FromInt(100))

WeightedActivity(skin_percentage, bright_percentage, edge_percentage) ==
    FAdd(FAdd(FMul(skin_percentage, FLit(6, 10)),
              FMul(bright_percentage, FLit(1, 4))),
         FMul(edge_percentage, FLit(15, 100)))

\* max(0, min(estimated_persons, 500))
Clamped(estimated_persons) == Max(0, Min(estimated_persons, 500))

\* int(weighted_activity / avg_person_pixel_percentage), then the bounds
EstimatedPersons(weighted_activity) ==
    Clamped(FInt(FDiv(weighted_activity, FromInt(1))))

\* (mutant) the sum of the two percentages, not their mean
SignalStrengthSum(skin_percentage, bright_percentage) ==
    FAdd(skin_percentage, bright_percentage)

\* signal_strength = (skin_percentage + bright_percentage) / 2
SignalStrength(skin_percentage, bright_percentage) ==
    FDiv(FAdd(skin_percentage, bright_percentage), FromInt(2))

\* the confidence of a signal strength; the mutant takes the bounds 1.0,
\* 3.0 and 6.0 into the lower bucket
ConfidenceInclusive(signal_strength) ==
    IF FLe(signal_strength, FromInt(1)) THEN 3000
    ELSE IF FLe(signal_strength, FromInt(3)) THEN 5000
    ELSE IF FLe(signal_strength, FromInt(6)) THEN 7000
    ELSE 8500

Confidence(signal_strength) ==
    IF FLt(signal_strength, FromInt(1)) THEN 3000
    ELSE IF FLt(signal_strength, FromInt(3)) THEN 5000
    ELSE IF FLt(signal_strength, FromInt(6)) THEN 7000
    ELSE 8500

\* the dict returned for a loaded image
DensityResult(img) ==
    LET total_pixels == img.shape[2] * img.shape[1]
        skin_percentage == Percentage(img.skin, total_pixels)
        bright_percentage == Percentage(img.bright, total_pixels)
        edge_percentage == Percentage(img.edge, total_pixels)
        weighted_activity == WeightedActivity(skin_percentage, bright_percentage, edge_percentage)
        estimated_persons == EstimatedPersons(weighted_activity)
        confidence == Confidence(SignalStrength(skin_percentage, bright_percentage))
    IN [success |-> TRUE,
        method |-> "pixel_density",
        total_pixels |-> total_pixels,
        skin_percentage |-> RoundDecimals(skin_percentage, 1000),
        bright_percentage |-> RoundDecimals(bright_percentage, 1000),
        edge_percentage |-> RoundDecimals(edge_percentage, 1000),
        weighted_activity |-> RoundDecimals(weighted_activity, 1000),
        total_persons |-> estimated_persons,
        confidence |-> confidence,
        confidence_distribution |->
            [high |-> IF confidence >= 7000 THEN estimated_persons ELSE 0,
             medium |-> IF 5000 <= confidence /\ confidence < 7000 THEN estimated_persons ELSE 0,
             low |-> IF confidence < 5000 THEN estimated_persons ELSE 0]]

DensityIdle ==
    /\ d_pc = "idle"
    /\ d_exists = FALSE
    /\ d_image = NoPixels
    /\ d_result = NoResult

\* a call on a path: the file exists or not, and is an image or not
DensityInit ==
    /\ d_pc = "call"
    /\ d_exists \in BOOLEAN
    /\ d_image \in IF d_exists THEN DensityImages \cup {NoPixels} ELSE {NoPixels}
    /\ d_result = NoResult

\* os.path.exists(image_path) is false
DensityNotFound ==
    /\ d_pc = "call"
    /\ ~d_exists
    /\ d_result' = [success |-> FALSE, error |-> "Image not found"]
    /\ d_pc' = "done"
    /\ UNCHANGED <<d_exists, d_image>>
    /\ UNCHANGED <<mvars, svars, pvars, bvars, cvars, yvars>>

\* cv2.imread returns None
DensityNotLoaded ==
    /\ d_pc = "call"
    /\ d_exists
    /\ d_image = NoPixels
    /\ d_result' = [success |-> FALSE, error |-> "Failed to load image"]
    /\ d_pc' = "done"
    /\ UNCHANGED <<d_exists, d_image>>
    /\ UNCHANGED <<mvars, svars, pvars, bvars, cvars, yvars>>

\* a call inside the try block raises: the handler returns str(e)
DensityRaises ==
    /\ d_pc = "call"
    /\ d_exists
    /\ d_result' = [success |-> FALSE, error |-> "str(e)", method |-> "pixel_density"]
    /\ d_pc' = "done"
    /\ UNCHANGED <<d_exists, d_image>>
    /\ UNCHANGED <<mvars, svars, pvars, bvars, cvars, yvars>>

\* the analysis of a loaded image
DensityReturn ==
    /\ d_pc = "call"
    /\ d_exists
    /\ d_image # NoPixels
    /\ d_result' = DensityResult(d_image)
    /\ d_pc' = "done"
    /\ UNCHANGED <<d_exists, d_image>>
    /\ UNCHANGED <<mvars, svars, pvars, bvars, cvars, yvars>>

DensityNext ==
    \/ DensityNotFound
    \/ DensityNotLoaded
    \/ DensityRaises
    \/ DensityReturn

-----------------------------------------------------------------------------
(* main of the four command-line tools                                     *)
(*                                                                         *)
(* A run is given its arguments and its environment: what goes wrong in    *)
(* the capture and in the analysis, and how many persons the analysis      *)
(* finds when nothing does.  The analysis functions are taken by where     *)
(* their try blocks are: what they return and what they let escape.        *)

Tools == {"yolo-detector", "beach-detector", "pi-detector", "pixel-density-analyzer"}

\* the function main calls for the analysis
AnalysisOf(tool) ==
    CASE tool = "yolo-detector" -> "detect_persons"
      [] tool = "beach-detector" -> "detect_beach_crowd"
      [] tool = "pi-detector" -> "detect"
      [] tool = "pixel-density-analyzer" -> "analyze_pixel_density"

\* what can go wrong in capture_hls_frame
CaptureFaults == {"none", "timeout", "ffmpeg_missing", "nonzero_returncode", "no_output_file"}

\* what can go wrong in an analysis; the pixel analysis loads no model and
\* its inference_error is an exception of an image operation
AnalysisFaults(tool) ==
    IF tool = "pixel-density-analyzer"
    THEN {"none", "image_not_found", "decode_failure", "inference_error"}
    ELSE {"none", "image_not_found", "decode_failure", "model_load_error", "inference_error"}

Returned(result) == [raised |-> FALSE, result |-> result]
Raised == [raised |-> TRUE]

Failure(error) == [success |-> FALSE, error |-> error]
Success(persons) == [success |-> TRUE, persons |-> persons]

\* yolo-detector: the existence check, then everything inside try/except
detect_persons(fault, persons) ==
    IF fault = "image_not_found" THEN Returned(Failure("Image not found"))
    ELSE IF fault # "none" THEN Returned(Failure("str(e)"))
    ELSE Returned(Success(persons))

\* beach-detector and pi-detector: no try block; imread returns None for a
\* missing or undecodable file
detect_beach_crowd(fault, persons) ==
    IF fault = "model_load_error" THEN Raised
    ELSE IF fault \in {"image_not_found", "decode_failure"}
    THEN Returned(Failure("Could not load image"))
    ELSE IF fault = "inference_error" THEN Raised
    ELSE Returned(Success(persons))

detect(fault, persons) == detect_beach_crowd(fault, persons)

\* pixel-density-analyzer, as in SpecDensity
analyze_pixel_density(fault, persons) ==
    IF fault = "image_not_found" THEN Returned(Failure("Image not found"))
    ELSE IF fault = "decode_failure" THEN Returned(Failure("Failed to load image"))
    ELSE IF fault # "none" THEN Returned(Failure("str(e)"))
    ELSE Returned(Success(persons))

Analyse(tool, fault, persons) ==
    CASE tool = "yolo-detector" -> detect_persons(fault, persons)
      [] tool = "beach-detector" -> detect_beach_crowd(fault, persons)
      [] tool = "pi-detector" -> detect(fault, persons)
      [] tool = "pixel-density-analyzer" -> analyze_pixel_density(fault, persons)

\* what capture_hls_frame returns: the output path, or "None"; the mutant
\* does not look at the return code
capture_ignoring_returncode(fault) ==
    IF fault \in {"none", "nonzero_returncode"} THEN "frame.jpg" ELSE "None"

capture_hls_frame(fault) ==
    IF fault = "none" THEN "frame.jpg" ELSE "None"

\* what is printed on standard output
JsonOutput(result) == [format |-> "json", result |-> result]
TextError(error) == [format |-> "text", error |-> error]
TextReport(result) == [format |-> "text", result |-> result]
OtherText == [format |-> "text"]

\* print(json.dumps(result)) with --json, the text form otherwise
Emit(json, result) ==
    IF json THEN JsonOutput(result)
    ELSE IF result.success THEN TextReport(result)
    ELSE TextError(result.error)

\* the tools whose main calls sys.exit(1) after printing an error as text
ExitsOnTextError == {"yolo-detector", "pixel-density-analyzer"}

StillRunning == -1

MainArgs ==
    [json : BOOLEAN, capture : BOOLEAN, stream : BOOLEAN, image : BOOLEAN,
     beach_area : BeachAreas]

\* only pi-detector has --capture, --stream and an optional image, and only
\* there --beach-area enters the result
ArgsOf(tool) ==
    IF tool = "pi-detector" THEN MainArgs
    ELSE {a \in MainArgs : ~a.capture /\ ~a.stream /\ a.image /\ a.beach_area = 5000}

MainIdle ==
    /\ c_pc = "idle"
    /\ c_tool = "none"
    /\ c_args = [json |-> FALSE, capture |-> FALSE, stream |-> FALSE, image |-> FALSE,
                 beach_area |-> 0]
    /\ c_fault = [capture |-> "none", analysis |-> "none"]
    /\ c_persons = 0
    /\ c_image_path = "None"
    /\ c_result = NoResult
    /\ c_stdout = <<>>
    /\ c_calls = <<>>
    /\ c_exit = StillRunning
    /\ c_uncaught = FALSE

MainInit ==
    /\ c_pc = "start"
    /\ c_tool \in Tools
    /\ c_args \in ArgsOf(c_tool)
    /\ c_fault \in [capture : IF c_args.capture /\ c_args.stream THEN CaptureFaults ELSE {"none"},
                    analysis : AnalysisFaults(c_tool)]
    /\ c_persons \in 0..MaxPersons
    /\ c_image_path = "None"
    /\ c_result = NoResult
    /\ c_stdout = <<>>
    /\ c_calls = <<>>
    /\ c_exit = StillRunning
    /\ c_uncaught = FALSE

MainUnchanged == UNCHANGED <<c_tool, c_args, c_fault, c_persons>>

\* `image_path = args.image` (None without the argument), then --capture
\* without --stream: a message on stderr, sys.exit(1)
MainNoStream ==
    /\ c_pc = "start"
    /\ c_args.capture /\ ~c_args.stream
    /\ c_image_path' = IF c_args.image THEN "image.jpg" ELSE "None"
    /\ c_exit' = 1
    /\ c_pc' = "exited"
    /\ UNCHANGED <<c_result, c_stdout, c_calls, c_uncaught>>
    /\ MainUnchanged
    /\ UNCHANGED <<mvars, svars, pvars, bvars, dvars, yvars>>

\* image_path = capture_hls_frame(args.stream, args.output)
MainCapture ==
    /\ c_pc = "start"
    /\ c_args.capture /\ c_args.stream
    /\ c_calls' = Append(c_calls, "capture_hls_frame")
    /\ c_image_path' = capture_hls_frame(c_fault.capture)
    /\ c_stdout' = IF c_fault.capture = "ffmpeg_missing"
                   THEN Append(c_stdout, OtherText) ELSE c_stdout
    /\ c_pc' = "captured"
    /\ UNCHANGED <<c_result, c_exit, c_uncaught>>
    /\ MainUnchanged
    /\ UNCHANGED <<mvars, svars, pvars, bvars, dvars, yvars>>

\* if not image_path: the failure result is printed, sys.exit(1)
MainCaptureFailed ==
    /\ c_pc = "captured"
    /\ c_image_path = "None"
    /\ c_result' = Failure("Failed to capture frame from stream")
    /\ c_stdout' = Append(c_stdout, Emit(c_args.json, c_result'))
    /\ c_exit' = 1
    /\ c_pc' = "exited"
    /\ UNCHANGED <<c_image_path, c_calls, c_uncaught>>
    /\ MainUnchanged
    /\ UNCHANGED <<mvars, svars, pvars, bvars, dvars, yvars>>

MainCaptured ==
    /\ c_pc = "captured"
    /\ c_image_path # "None"
    /\ c_pc' = "analyse"
    /\ UNCHANGED <<c_image_path, c_result, c_stdout, c_calls, c_exit, c_uncaught>>
    /\ MainUnchanged
    /\ UNCHANGED <<mvars, svars, pvars, bvars, dvars, yvars>>

\* no capture and no image: parser.print_help(), sys.exit(1)
MainNoImage ==
    /\ c_pc = "start"
    /\ ~c_args.capture /\ ~c_args.image
    /\ c_stdout' = Append(c_stdout, OtherText)
    /\ c_exit' = 1
    /\ c_pc' = "exited"
    /\ UNCHANGED <<c_image_path, c_result, c_calls, c_uncaught>>
    /\ MainUnchanged
    /\ UNCHANGED <<mvars, svars, pvars, bvars, dvars, yvars>>

\* the image argument is the path analysed
MainImage ==
    /\ c_pc = "start"
    /\ ~c_args.capture /\ c_args.image
    /\ c_image_path' = "image.jpg"
    /\ c_pc' = "analyse"
    /\ UNCHANGED <<c_result, c_stdout, c_calls, c_exit, c_uncaught>>
    /\ MainUnchanged
    /\ UNCHANGED <<mvars, svars, pvars, bvars, dvars, yvars>>

\* result = <analysis>(image_path, ...); an exception that escapes it ends
\* the process with a traceback and status 1
MainAnalyse ==
    /\ c_pc = "analyse"
    /\ c_calls' = Append(c_calls, AnalysisOf(c_tool))
    /\ LET outcome == Analyse(c_tool, c_fault.analysis, c_persons)
       IN IF outcome.raised
          THEN /\ c_uncaught' = TRUE
               /\ c_exit' = 1
               /\ c_pc' = "exited"
               /\ UNCHANGED c_result
          ELSE /\ c_result' = outcome.result
               /\ c_pc' = "analysed"
               /\ UNCHANGED <<c_exit, c_uncaught>>
    /\ UNCHANGED <<c_image_path, c_stdout>>
    /\ MainUnchanged
    /\ UNCHANGED <<mvars, svars, pvars, bvars, dvars, yvars>>

\* pi-detector: if result['success']: result.update(calculate_busyness(...))
MainBusyness ==
    /\ c_pc = "analysed"
    /\ IF c_tool = "pi-detector" /\ c_result.success
       THEN /\ c_calls' = Append(c_calls, "calculate_busyness")
            /\ c_result' = [success |-> TRUE, persons |-> c_result.persons,
                            busyness |-> calculate_busyness(c_result.persons, c_args.beach_area)]
       ELSE UNCHANGED <<c_calls, c_result>>
    /\ c_pc' = "output"
    /\ UNCHANGED <<c_image_path, c_stdout, c_exit, c_uncaught>>
    /\ MainUnchanged
    /\ UNCHANGED <<mvars, svars, pvars, bvars, dvars, yvars>>

\* the result is printed; only the text branch of yolo-detector and of
\* pixel-density-analyzer calls sys.exit(1) on a failure
MainOutput ==
    /\ c_pc = "output"
    /\ c_stdout' = Append(c_stdout, Emit(c_args.json, c_result))
    /\ c_exit' = IF ~c_args.json /\ ~c_result.success /\ c_tool \in ExitsOnTextError
                 THEN 1 ELSE 0
    /\ c_pc' = "exited"
    /\ UNCHANGED <<c_image_path, c_result, c_calls, c_uncaught>>
    /\ MainUnchanged
    /\ UNCHANGED <<mvars, svars, pvars, bvars, dvars, yvars>>

MainNext ==
    \/ MainNoStream
    \/ MainCapture
    \/ MainCaptureFailed
    \/ MainCaptured
    \/ MainNoImage
    \/ MainImage
    \/ MainAnalyse
    \/ MainBusyness
    \/ MainOutput

-----------------------------------------------------------------------------
(* detect_persons (yolo-detector)                                          *)
(* The model is called without a confidence floor or class filter: it      *)
(* returns boxes of any class and confidence, and the function filters.    *)

\* class ids of the COCO dataset: 0 is person
person_class_id == 0
YoloClasses == {person_class_id, 2}

\* values of confidence_threshold, in units of 1/10000: 0.25 and 0.5 (the
\* default), and 0.5003, a value with more than three decimals
YoloThresholds == {2500, 5000, 5003}

\* float(box.conf[0]) in units of 1/10000: values around the threshold and
\* the bucket limits; none lies halfway between two multiples of 0.001, and
\* only 0.25, exact in float32, equals a threshold
YoloConfidences == {2500, 4996, 5004, 6996, 9024}

\* the boxes the model may return
YoloBoxes ==
    {[cls |-> c, conf |-> f, xyxy |-> <<10, 20, 110, 220>>] : c \in YoloClasses, f \in YoloConfidences}

\* the dict appended to person_detections
PersonDetection(box) ==
    [bbox |-> box.xyxy, confidence |-> Round3(box.conf, 1), class |-> "person"]

\* high_conf, med_conf, low_conf
ConfidenceDistribution(persons) ==
    [high |-> Cardinality({i \in 1..Len(persons) : persons[i].confidence >= 7000}),
     medium |-> Cardinality({i \in 1..Len(persons) :
                    5000 <= persons[i].confidence /\ persons[i].confidence < 7000}),
     low |-> Cardinality({i \in 1..Len(persons) : persons[i].confidence < 5000})]

\* detect_persons is not running
YoloIdle ==
    /\ y_pc = "idle"
    /\ y_exists = FALSE
    /\ y_threshold = 5000
    /\ y_boxes = <<>>
    /\ y_k = 1
    /\ y_persons = <<>>
    /\ y_result = NoResult

\* a call on a path, with a threshold; what the model will return
YoloInit ==
    /\ y_pc = "call"
    /\ y_exists \in BOOLEAN
    /\ y_threshold \in YoloThresholds
    /\ y_boxes \in IF y_exists THEN SeqUpTo(YoloBoxes, MaxBoxes) ELSE {<<>>}
    /\ y_k = 1
    /\ y_persons = <<>>
    /\ y_result = NoResult

\* `if not os.path.exists(image_path)`
YoloNotFound ==
    /\ y_pc = "call"
    /\ ~y_exists
    /\ y_result' = [success |-> FALSE, error |-> "Image not found"]
    /\ y_pc' = "done"
    /\ UNCHANGED <<y_exists, y_threshold, y_boxes, y_k, y_persons>>
    /\ UNCHANGED <<mvars, svars, pvars, bvars, dvars, cvars>>

\* YOLO(model_name), model(image_path), results[0], `person_detections = []`
YoloInference ==
    /\ y_pc = "call"
    /\ y_exists
    /\ y_persons' = <<>>
    /\ y_k' = 1
    /\ y_pc' = "boxes"
    /\ UNCHANGED <<y_exists, y_threshold, y_boxes, y_result>>
    /\ UNCHANGED <<mvars, svars, pvars, bvars, dvars, cvars>>

\* loading the model or running it raises: `except Exception as e`
YoloRaises ==
    /\ y_pc = "call"
    /\ y_exists
    /\ y_result' = [success |-> FALSE, error |-> "str(e)"]
    /\ y_pc' = "done"
    /\ UNCHANGED <<y_exists, y_threshold, y_boxes, y_k, y_persons>>
    /\ UNCHANGED <<mvars, svars, pvars, bvars, dvars, cvars>>

\* one iteration of `for box in boxes`
YoloBox ==
    /\ y_pc = "boxes"
    /\ y_k <= Len(y_boxes)
    /\ LET box == y_boxes[y_k]
           class_id == box.cls
           confidence == box.conf
       IN y_persons' = IF class_id = person_class_id /\ confidence >= y_threshold
                         THEN Append(y_persons, PersonDetection(box))
                         ELSE y_persons
    /\ y_k' = y_k + 1
    /\ UNCHANGED <<y_pc, y_exists, y_threshold, y_boxes, y_result>>
    /\ UNCHANGED <<mvars, svars, pvars, bvars, dvars, cvars>>

\* the statistics and the result dict (save_annotated=False, the default)
YoloReturn ==
    /\ y_pc = "boxes"
    /\ y_k > Len(y_boxes)
    /\ LET stats == ConfidenceStats(y_persons)
       IN y_result' =
            [success |-> TRUE,
             confidence_threshold |-> y_threshold,
             detections |->
                [total_persons |-> Len(y_persons),
                 min_confidence |-> stats.min_confidence,
                 max_confidence |-> stats.max_confidence,
                 avg_confidence |-> stats.avg_confidence,
                 confidence_distribution |->
                    IF Len(y_persons) > 0
                      THEN ConfidenceDistribution(y_persons)
                      ELSE [high |-> 0, medium |-> 0, low |-> 0],
                 persons |-> y_persons]]
    /\ y_pc' = "done"
    /\ UNCHANGED <<y_exists, y_threshold, y_boxes, y_k, y_persons>>
    /\ UNCHANGED <<mvars, svars, pvars, bvars, dvars, cvars>>

YoloNext ==
    \/ YoloNotFound
    \/ YoloInference
    \/ YoloRaises
    \/ YoloBox
    \/ YoloReturn

-----------------------------------------------------------------------------
(* Specifications *)

\* one call of the merger, and a second one on its result
\* the functions that are not running
ExtraIdle == BusyIdle /\ DensityIdle /\ MainIdle /\ YoloIdle

InitMerge == MergeInit /\ SliceIdle /\ PipeIdle /\ ExtraIdle

SpecMerge == InitMerge /\ [][MergeNext]_vars

\* one call of slice_image
InitSlice == SliceInit /\ MergeIdle /\ PipeIdle /\ ExtraIdle

SpecSlice == InitSlice /\ [][SliceNext]_vars

\* one call of detect_beach_crowd or of detect

Init == PipeInit /\ MergeIdle /\ SliceIdle /\ ExtraIdle

Next == PipeNext

Spec == Init /\ [][Next]_vars

\* calls of calculate_busyness
InitBusy == BusyInit /\ MergeIdle /\ SliceIdle /\ PipeIdle /\ DensityIdle /\ MainIdle /\ YoloIdle

SpecBusy == InitBusy /\ [][BusyNext]_vars

\* one call of analyze_pixel_density
InitDensity == DensityInit /\ MergeIdle /\ SliceIdle /\ PipeIdle /\ BusyIdle /\ MainIdle /\ YoloIdle

SpecDensity == InitDensity /\ [][DensityNext]_vars

\* one run of a command-line tool
InitMain == MainInit /\ MergeIdle /\ SliceIdle /\ PipeIdle /\ BusyIdle /\ DensityIdle /\ YoloIdle

SpecMain == InitMain /\ [][MainNext]_vars

\* one call of a function that reports confidence buckets: detect_persons
\* or analyze_pixel_density
InitBuckets ==
    /\ MergeIdle /\ SliceIdle /\ PipeIdle /\ BusyIdle /\ MainIdle
    /\ \/ YoloInit /\ DensityIdle
       \/ YoloIdle /\ DensityInit

BucketsNext == YoloNext \/ DensityNext

SpecBuckets == InitBuckets /\ [][BucketsNext]_vars

-----------------------------------------------------------------------------
(* Properties of the merger, under SpecMerge *)

\* the IoU of the specification, intersection / (area_a + area_b -
\* intersection + 1e-6), compared with num/den by cross-multiplication
SpecInter(a, b) ==
    LET w == Min(a[3], b[3]) - Max(a[1], b[1])
        h == Min(a[4], b[4]) - Max(a[2], b[2])
    IN IF w > 0 /\ h > 0 THEN w * h ELSE 0
SpecArea(a) == (a[3] - a[1]) * (a[4] - a[2])
SpecIouGreater(a, b, thr) ==
    SpecInter(a, b) * thr.den * EpsInv
        > thr.num * ((SpecArea(a) + SpecArea(b) - SpecInter(a, b)) * EpsInv + 1)
SpecIouLess(a, b, thr) ==
    SpecInter(a, b) * thr.den * EpsInv
        < thr.num * ((SpecArea(a) + SpecArea(b) - SpecInter(a, b)) * EpsInv + 1)

\* C1: the list the merger returns holds no two detections (at distinct
\* positions) whose IoU is greater than iou_threshold
C1_NoOverlapInResult ==
    m_pc = "done" =>
        \A i, j \in 1..Len(m_out) :
            i # j => ~SpecIouGreater(m_out[i].bbox, m_out[j].bbox, m_thr)

\* a call that suppressed something and still returned two or more detections
C1_Witness ==
    /\ m_pc = "done"
    /\ m_pass = 1
    /\ Len(m_out) >= 2
    /\ Len(m_out) < Len(m_dets)

\* C2: of two detections with different confidences the merger returns only
\* the more confident one when their IoU exceeds the threshold, and both
\* when their IoU is below it
C2_PairMerge ==
    (m_pc = "done" /\ m_pass = 1 /\ Len(m_dets) = 2
        /\ m_dets[1].confidence # m_dets[2].confidence) =>
        LET hi == IF m_dets[1].confidence > m_dets[2].confidence THEN m_dets[1] ELSE m_dets[2]
        IN /\ SpecIouGreater(m_dets[1].bbox, m_dets[2].bbox, m_thr) => m_out = <<hi>>
           /\ SpecIouLess(m_dets[1].bbox, m_dets[2].bbox, m_thr) => SameBag(m_out, m_dets)

\* a pair whose less confident member comes first and is suppressed
C2_Witness ==
    /\ m_pc = "done"
    /\ m_pass = 1
    /\ Len(m_dets) = 2
    /\ m_dets[1].confidence < m_dets[2].confidence
    /\ SpecIouGreater(m_dets[1].bbox, m_dets[2].bbox, m_thr)
    /\ m_out = <<m_dets[2]>>

\* every two positions of the list overlap above the threshold
PairwiseAbove(dets, thr) ==
    \A i, j \in 1..Len(dets) : i # j => SpecIouGreater(dets[i].bbox, dets[j].bbox, thr)

\* C3: a non-empty group of detections that pairwise overlap above the
\* threshold is merged to exactly one detection, whose confidence is the
\* maximum of the group's confidences
C3_GroupToOne ==
    (m_pc = "done" /\ m_pass = 1 /\ Len(m_dets) >= 1 /\ PairwiseAbove(m_dets, m_thr)) =>
        /\ Len(m_out) = 1
        /\ m_out[1].confidence = MaxConfidence(m_dets)

\* a group of MaxDets mutually overlapping detections of mixed confidence, merged
C3_Witness ==
    /\ m_pc = "done"
    /\ m_pass = 1
    /\ Len(m_dets) = MaxDets
    /\ PairwiseAbove(m_dets, m_thr)
    /\ \E i, j \in 1..Len(m_dets) : m_dets[i].confidence < m_dets[j].confidence
    /\ Len(m_out) = 1

\* C4: merging the result of a merge again, with the same threshold, gives
\* the same detections
C4_Idempotent ==
    (m_pc = "done" /\ m_pass = 2) => SameBag(m_out, m_out1)

\* a second pass over a result of two or more detections, two of them of
\* equal confidence and overlapping (below the threshold)
C4_Witness ==
    /\ m_pc = "done"
    /\ m_pass = 2
    /\ Len(m_out1) >= 2
    /\ \E i, j \in 1..Len(m_out1) :
         /\ i # j
         /\ m_out1[i].confidence = m_out1[j].confidence
         /\ SpecInter(m_out1[i].bbox, m_out1[j].bbox) > 0
    /\ SameBag(m_out, m_out1)

\* C5 (as claimed): detections of equal confidence are processed in input
\* order, the earlier one first
C5_TiesInInputOrder ==
    (m_pc = "loop" /\ m_indices = <<>>) =>
        \A p, q \in 1..Len(m_order) :
            (p < q /\ m_dets[m_order[p]].confidence = m_dets[m_order[q]].confidence)
                => m_order[p] < m_order[q]

-----------------------------------------------------------------------------
(* Properties of slice_image, under SpecSlice *)

\* pixel (px, py) lies in the rectangle of tile t
InTile(px, py, t) ==
    /\ t.offset[1] <= px /\ px < t.offset[1] + t.shape[2]
    /\ t.offset[2] <= py /\ py < t.offset[2] + t.shape[1]

\* C6: when slice_image returns, the tiles cover every pixel of the image,
\* every tile lies inside the image, and every tile is min(slice_size, W)
\* wide and min(slice_size, H) high
C6_TilesCoverFullSize ==
    s_pc = "done" =>
        /\ \A px \in 0..(s_w - 1), py \in 0..(s_h - 1) :
              \E k \in 1..Len(s_slices) : InTile(px, py, s_slices[k])
        /\ \A k \in 1..Len(s_slices) :
              LET t == s_slices[k]
              IN /\ t.offset[1] >= 0 /\ t.offset[1] + t.shape[2] <= s_w
                 /\ t.offset[2] >= 0 /\ t.offset[2] + t.shape[1] <= s_h
                 /\ t.shape[2] = (IF s_size <= s_w THEN s_size ELSE s_w)
                 /\ t.shape[1] = (IF s_size <= s_h THEN s_size ELSE s_h)

\* a returned grid whose last column was pulled back from a position where
\* a full tile did not fit, on an image smaller than slice_size in height
C6_Witness ==
    /\ s_pc = "done"
    /\ Len(s_slices) >= 2
    /\ s_h < s_size
    /\ s_w > s_size
    /\ \E k \in 1..Len(s_slices) :
         /\ s_slices[k].offset[1] = s_w - s_size
         /\ s_slices[k].offset[1] % Stride(s_size, s_overlap) # 0

\* C7 (as claimed): for every slice_size > 0 and 0 <= overlap < 1 the call
\* raises no error and returns at least one tile
C7_SliceNeverRaises ==
    /\ s_pc # "ValueError"
    /\ s_pc = "done" => Len(s_slices) >= 1

-----------------------------------------------------------------------------
(* Properties of the detection pipelines, under Spec *)

\* the pipeline's condition for tiling, as the specification words it
TilingCalledFor == p_slicing /\ p_image # NoImage /\ Max(p_image[1], p_image[2]) > 1280

\* C8 (as claimed): the image is sliced only when slicing is enabled and
\* max(W, H) > 1280; in every other successful run the model is invoked
\* exactly once, on the full image, and no tile is produced
C8_SinglePassWithoutTiling ==
    /\ (p_slices # <<>> \/ \E k \in 1..Len(p_calls) : p_calls[k].region = "tile")
          => TilingCalledFor
    /\ (p_pc = "done" /\ p_image # NoImage /\ ~TilingCalledFor) =>
          /\ Len(p_calls) = 1
          /\ p_calls[1].region = "full"
          /\ p_calls[1].shape = <<p_image[2], p_image[1]>>
          /\ p_slices = <<>>

\* the boxes the model returned for the tiles, each moved by the offset of
\* the tile it was found in, in the order of the calls
TileBoxesInImage ==
    LET Moved(k) ==
            [i \in 1..Len(p_calls[k].boxes) |->
                LET b == p_calls[k].boxes[i].xyxy
                    ox == p_slices[k].offset[1]
                    oy == p_slices[k].offset[2]
                IN [bbox |-> <<b[1] + ox, b[2] + oy, b[3] + ox, b[4] + oy>>,
                    confidence |-> p_calls[k].boxes[i].conf]]
        RECURSIVE F(_)
        F(k) == IF k = 0 THEN <<>> ELSE F(k - 1) \o Moved(k)
    IN F(Len(p_calls))

\* C9: the detections that enter the merge of the tiles are the boxes the
\* model returned, each translated by the offset of its tile; they, and the
\* detections entering the final merge, lie inside [0, W] x [0, H]
C9_TileBoxesTranslated ==
    /\ p_pc = "merge_tiles" =>
          /\ Len(p_all) = Len(TileBoxesInImage)
          /\ \A i \in 1..Len(p_all) :
                /\ p_all[i].bbox = TileBoxesInImage[i].bbox
                /\ p_all[i].confidence = TileBoxesInImage[i].confidence
    /\ p_pc \in {"merge_tiles", "final_merge"} =>
          \A i \in 1..Len(p_all) :
              LET b == p_all[i].bbox
              IN /\ 0 <= b[1] /\ b[1] <= b[3] /\ b[3] <= p_image[1]
                 /\ 0 <= b[2] /\ b[2] <= b[4] /\ b[4] <= p_image[2]

\* the tiles of an image gave MaxTileDets detections, one of them from a tile
\* with a non-zero offset and reaching the far corner of the image
C9_Witness ==
    /\ p_pc = "merge_tiles"
    /\ Len(p_all) = MaxTileDets
    /\ \E k \in 1..Len(p_calls) :
         /\ p_calls[k].offset # <<0, 0>>
         /\ Len(p_calls[k].boxes) = 1
    /\ \E i \in 1..Len(p_all) :
         p_all[i].bbox[3] = p_image[1] /\ p_all[i].bbox[4] = p_image[2]

\* round(c, 3) of the specification, in units of 1/10000
SpecRound3(c) == (c - (c % 10)) + (IF c % 10 >= 5 THEN 10 ELSE 0)

\* C10: the persons list detect_beach_crowd returns is ordered by
\* confidence, non-increasing, and max_confidence is the rounded confidence
\* of persons[0] when the list is not empty
C10_PersonsByConfidence ==
    (p_pc = "done" /\ p_script = "beach-detector" /\ p_image # NoImage) =>
        LET persons == p_result.persons
        IN /\ \A i, j \in 1..Len(persons) :
                 i < j => persons[i].confidence >= persons[j].confidence
           /\ Len(persons) > 0 =>
                 p_result.max_confidence = SpecRound3(persons[1].confidence)

\* a result of three persons of which the first is more confident than the last
C10_Witness ==
    /\ p_pc = "done"
    /\ p_script = "beach-detector"
    /\ p_image # NoImage
    /\ Len(p_result.persons) >= 3
    /\ p_result.persons[1].confidence > p_result.persons[Len(p_result.persons)].confidence
    /\ p_result.max_confidence # p_result.persons[1].confidence

-----------------------------------------------------------------------------
(* Properties of calculate_busyness, under SpecBusy *)

\* The formulas of the specification, in exact arithmetic: the value of
\* the branch of the density 100 * p / a is SpecNum(p, a) / SpecDen(p, a).
SpecLevel(p, a) ==
    IF 200 * p <= a THEN "quiet"
    ELSE IF 100 * p <= 2 * a THEN "moderate"
    ELSE IF 100 * p <= 4 * a THEN "busy"
    ELSE "very_busy"

SpecNum(p, a) ==
    CASE SpecLevel(p, a) = "quiet" -> 5000 * p
      [] SpecLevel(p, a) = "moderate" -> 50 * a + 5000 * p
      [] SpecLevel(p, a) = "busy" -> 50 * a + 2500 * p
      [] SpecLevel(p, a) = "very_busy" -> 200 * a + 2500 * p

SpecDen(p, a) ==
    CASE SpecLevel(p, a) = "quiet" -> a
      [] SpecLevel(p, a) = "moderate" -> 3 * a
      [] SpecLevel(p, a) = "busy" -> 2 * a
      [] SpecLevel(p, a) = "very_busy" -> 4 * a

\* n is an integer nearest to num / den
Nearest(n, num, den) ==
    /\ 2 * (n * den - num) <= den
    /\ 2 * (num - n * den) <= den

\* C11: the score is the formula of the branch rounded to the nearest
\* integer, capped at 100 in the last branch
C11_ScoreIsRoundedFormula ==
    b_pc = "done" =>
        LET num == SpecNum(b_count, b_area)
            den == SpecDen(b_count, b_area)
        IN IF SpecLevel(b_count, b_area) = "very_busy" /\ 2 * num >= 199 * den
           THEN b_result.score = 100
           ELSE Nearest(b_result.score, num, den)

\* C12: the level has inclusive upper bounds 0.5, 2.0 and 4.0 on the
\* density; 10 persons on 5000 sqm score 10 and are quiet; 100 persons on
\* 5000 sqm score 50, which both the moderate and the busy formula give
C12_LevelBounds ==
    b_pc = "done" =>
        /\ b_result.level = SpecLevel(b_count, b_area)
        /\ (b_count = 10 /\ b_area = 5000) =>
                b_result.score = 10 /\ b_result.level = "quiet"
        /\ (b_count = 100 /\ b_area = 5000) =>
                /\ b_result.score = 50
                /\ ModerateScore(Density(b_count, b_area)) = 50
                /\ BusyScore(Density(b_count, b_area)) = 50

\* a call at the inclusive bound 2.0: 100 persons on 5000 sqm are moderate
C12_Witness ==
    /\ b_pc = "done"
    /\ b_area = 5000
    /\ b_count = 100
    /\ b_result.score = 50
    /\ b_result.level = "moderate"

\* C13: for one area the score does not decrease when the person count
\* grows, and at the densities 0.5, 2.0 and 4.0 the formulas of the two
\* adjacent branches give the same score: 25, 50 and 75
C13_MonotonicContinuous ==
    b_pc = "done" =>
        LET density == Density(b_count, b_area)
        IN /\ b_pass = 2 /\ b_prev.person_count <= b_count
                => b_prev.result.score <= b_result.score
           /\ 200 * b_count = b_area
                => QuietScore(density) = 25 /\ ModerateScore(density) = 25
           /\ 100 * b_count = 2 * b_area
                => ModerateScore(density) = 50 /\ BusyScore(density) = 50
           /\ 100 * b_count = 4 * b_area
                => BusyScore(density) = 75 /\ VeryBusyScore(density) = 75

\* a second call with one person more, at the density 4.0, after a first
\* call that scored less
C13_Witness ==
    /\ b_pc = "done"
    /\ b_pass = 2
    /\ b_prev.person_count + 1 = b_count
    /\ 100 * b_count = 4 * b_area
    /\ b_prev.result.score < b_result.score

\* C14: the score is an integer from 0 to 100, the level is one of the
\* four levels, and a second call with the same arguments returns the same
C14_ScoreRange ==
    b_pc = "done" =>
        /\ b_result.score \in 0..100
        /\ b_result.level \in {"quiet", "moderate", "busy", "very_busy"}
        /\ b_pass = 2 /\ b_prev.person_count = b_count => b_result = b_prev.result

\* a second call with the same arguments, whose score was capped at 100
C14_Witness ==
    /\ b_pc = "done"
    /\ b_pass = 2
    /\ b_prev.person_count = b_count
    /\ b_result.score = 100
    /\ 2 * SpecNum(b_count, b_area) > 201 * SpecDen(b_count, b_area)

-----------------------------------------------------------------------------
(* Properties of analyze_pixel_density, under SpecDensity *)

\* the number of pixels of the image analysed
TotalPixels == d_image.shape[1] * d_image.shape[2]

\* the signal strength (skin% + bright%) / 2 of the image analysed, exactly:
\* ExactSignal / TotalPixels
ExactSignal == 50 * (d_image.skin + d_image.bright)

\* the four buckets of the specification, on the exact signal strength
SpecConfidence ==
    IF ExactSignal < TotalPixels THEN 3000
    ELSE IF ExactSignal < 3 * TotalPixels THEN 5000
    ELSE IF ExactSignal < 6 * TotalPixels THEN 7000
    ELSE 8500

\* the signal strength is exactly one of the bounds 1.0, 3.0, 6.0
AtBucketBound == \E k \in {1, 3, 6} : ExactSignal = k * TotalPixels

\* the bucket below the one of the specification
BucketBelow ==
    CASE SpecConfidence = 5000 -> 3000
      [] SpecConfidence = 7000 -> 5000
      [] SpecConfidence = 8500 -> 7000
      [] OTHER -> 3000

\* C15 (as claimed): a successful analysis returns a count from 0 to 500
\* and the confidence of the bucket of signal = (skin% + bright%) / 2: 0.3
\* below 1.0, 0.5 from 1.0 and below 3.0, 0.7 from 3.0 and below 6.0, 0.85
\* from 6.0
C15_ConfidenceIsBucketOfSignal ==
    (d_pc = "done" /\ d_result.success) =>
        /\ d_result.total_persons \in 0..500
        /\ d_result.confidence \in {3000, 5000, 7000, 8500}
        /\ d_result.confidence = SpecConfidence

\* C15 (amended): a successful analysis returns a count from 0 to 500 and
\* a confidence in {0.3, 0.5, 0.7, 0.85}; the confidence is that of the
\* bucket of the signal strength whenever the signal strength is not
\* exactly 1.0, 3.0 or 6.0, and at these three values it is that of the
\* bucket or of the bucket below (the signal strength computed in floating
\* point may fall just short of the bound); so the confidence does not
\* decrease when the signal strength grows
C15_CountAndConfidenceBuckets ==
    (d_pc = "done" /\ d_result.success) =>
        /\ d_result.total_persons \in 0..500
        /\ d_result.confidence \in {3000, 5000, 7000, 8500}
        /\ ~AtBucketBound => d_result.confidence = SpecConfidence
        /\ AtBucketBound => d_result.confidence \in {SpecConfidence, BucketBelow}

\* an analysis whose signal strength is exactly 1.0 (9 skin and 11 bright
\* pixels of 1000), returned with 0.3
C15_Witness ==
    /\ d_pc = "done"
    /\ d_result.success
    /\ ExactSignal = TotalPixels
    /\ d_image.skin = 9 /\ d_image.bright = 11
    /\ d_result.confidence = 3000

\* an analysis whose signal strength is exactly 6.0, returned with 0.85
C15_BoundInUpperBucket ==
    /\ d_pc = "done"
    /\ d_result.success
    /\ ExactSignal = 6 * TotalPixels
    /\ d_result.confidence = 8500

\* C16: the estimated count is the weighted activity
\* 0.6 * skin% + 0.25 * bright% + 0.15 * edge%, divided by 1.0, rounded to
\* the nearest integer and clamped to [0, 500]
C16_CountIsRoundedActivity ==
    (d_pc = "done" /\ d_result.success) =>
        LET num == 60 * d_image.skin + 25 * d_image.bright + 15 * d_image.edge
        IN IF 2 * num >= 999 * TotalPixels
           THEN d_result.total_persons = 500
           ELSE Nearest(d_result.total_persons, num, TotalPixels)

-----------------------------------------------------------------------------
(* Properties of the command-line tools, under SpecMain *)

\* the run has ended and its analysis was called and failed: it returned a
\* failure result or it raised
AnalysisEndedInFailure ==
    /\ c_pc = "exited"
    /\ \E i \in 1..Len(c_calls) : c_calls[i] = AnalysisOf(c_tool)
    /\ c_uncaught \/ ~c_result.success

\* what was printed tells the failure: the JSON of a result with
\* success = false and an error, or the error as text
FailureEmitted ==
    \E i \in 1..Len(c_stdout) :
        \/ /\ c_stdout[i].format = "json"
           /\ ~c_stdout[i].result.success
           /\ "error" \in DOMAIN c_stdout[i].result
        \/ /\ c_stdout[i].format = "text"
           /\ "error" \in DOMAIN c_stdout[i]

\* C17: in each of the four tools, with and without --json, a run whose
\* analysis ends in failure emits the failure and exits with a non-zero
\* status
C17_FailureExitsNonZero ==
    AnalysisEndedInFailure => FailureEmitted /\ c_exit # 0

\* C18: in the three detector tools every error of the analysis (image not
\* found, decode failure, exception while loading or invoking the model)
\* comes back as a returned result with success = false and an error, and
\* none escapes as an exception
C18_ErrorsAreReturned ==
    (/\ c_pc \in {"analysed", "output", "exited"}
     /\ c_tool \in {"yolo-detector", "beach-detector", "pi-detector"}
     /\ \E i \in 1..Len(c_calls) : c_calls[i] = AnalysisOf(c_tool)
     /\ c_fault.analysis # "none")
        => /\ ~c_uncaught
           /\ c_result # NoResult
           /\ ~c_result.success
           /\ "error" \in DOMAIN c_result

\* C19: a run of pi-detector whose capture fails (timeout, ffmpeg missing,
\* non-zero return code, no output file): capture_hls_frame returns None
\* and raises nothing, main emits the failure result and exits with
\* status 1, and neither detect nor calculate_busyness is called
C19_CaptureFailureStopsRun ==
    (c_pc \in {"captured", "exited"} /\ c_calls # <<>> /\ c_fault.capture # "none") =>
        /\ c_image_path = "None"
        /\ ~c_uncaught
        /\ c_calls = <<"capture_hls_frame">>
        /\ c_pc = "exited" =>
            /\ c_result = Failure("Failed to capture frame from stream")
            /\ c_stdout[Len(c_stdout)] = Emit(c_args.json, c_result)
            /\ FailureEmitted
            /\ c_exit = 1

\* a run with --json that ended after ffmpeg returned a non-zero code
C19_Witness ==
    /\ c_pc = "exited"
    /\ c_tool = "pi-detector"
    /\ c_args.json
    /\ c_fault.capture = "nonzero_returncode"
    /\ c_calls = <<"capture_hls_frame">>
    /\ c_stdout = <<JsonOutput(Failure("Failed to capture frame from stream"))>>
    /\ c_exit = 1

-----------------------------------------------------------------------------
(* Termination of the merger, under SpecMerge *)

\* what one iteration of the suppression loop does
LoopIteration ==
    LET current == m_order[1]
    IN \* the current detection is the most confident one remaining
       /\ \A k \in 1..Len(m_order) :
            m_dets[m_order[k]].confidence <= m_dets[current].confidence
       \* it is kept, and that is the only change to the kept ones
       /\ m_indices' = Append(m_indices, current)
       \* the loop ends here, or goes on with fewer detections remaining,
       \* without the current one
       /\ \/ m_pc' = "return" /\ Len(m_order) = 1
          \/ /\ m_pc' = "loop"
             /\ Len(m_order') < Len(m_order)
             /\ \A k \in 1..Len(m_order') : m_order'[k] # current
       \* at most n iterations for n detections
       /\ Len(m_indices') <= Len(m_dets)

\* C20: the suppression loop terminates: every iteration takes the most
\* confident remaining detection out of the remaining ones, there are at
\* most n iterations for n detections, and the loop is left only when
\* none remain
C20_LoopTerminates ==
    [][/\ MergeIterate => LoopIteration
       /\ MergeLoopExit => m_order = <<>>]_vars

\* a loop left after two iterations on three detections: the second
\* iteration suppressed the last one
C20_Witness ==
    /\ m_pc = "return"
    /\ Len(m_dets) = 3
    /\ Len(m_indices) = 2
    /\ m_order = <<>>

\* the model's answers of this run: for the tiles, in order, and for the
\* full image
TileCalls == SelectSeq(p_calls, LAMBDA c : c.region = "tile")

RunCount ==
    IF p_script = "beach-detector" THEN p_result.total_persons ELSE p_result.person_count

\* the count of a finished run is one the function may report for its inputs
RunCountIsFunctionOfInputs ==
    (p_pc = "done" /\ p_image # NoImage) =>
        RunCount \in PersonCounts(p_script, p_image, p_slicing, TileCalls, p_fullout.boxes)

\* C21 (as claimed): for the same image, detector output and slicing flag,
\* detect_beach_crowd and detect report the same person count, tiled or
\* not, whatever the detector returns (boxes of zero area included)
C21_SameCountInBothScripts ==
    (p_pc = "done" /\ p_image # NoImage) =>
        \A s \in Scripts :
            PersonCounts(s, p_image, p_slicing, TileCalls, p_fullout.boxes) = {RunCount}

\* the same on the tiled path alone
C21_SameCountWhenTiled ==
    (p_pc = "done" /\ p_image # NoImage /\ TilingCalledFor) =>
        \A s \in Scripts :
            PersonCounts(s, p_image, p_slicing, TileCalls, p_fullout.boxes) = {RunCount}

\* the same for boxes of positive area
C21_SameCountWithoutEmptyBoxes ==
    (p_pc = "done" /\ p_image # NoImage
        /\ \A k \in 1..Len(p_fullout.boxes) : Area(p_fullout.boxes[k].xyxy) > 0) =>
        \A s \in Scripts :
            PersonCounts(s, p_image, p_slicing, TileCalls, p_fullout.boxes) = {RunCount}

-----------------------------------------------------------------------------
(* Further properties of the merger, under SpecMerge *)

\* the positions of the input the merger keeps
Kept == Range(m_indices)

\* C22: the merger discards a detection only because of a kept one: for
\* every input detection that is not in the output there is one in the
\* output, at least as confident, whose IoU with it exceeds iou_threshold;
\* and a detection with the maximum confidence of the input is in the output
C22_DiscardedOnlyForKept ==
    /\ m_pc = "return" =>
          /\ \A d \in 1..Len(m_dets) :
                d \notin Kept =>
                    \E k \in Kept :
                        /\ m_dets[k].confidence >= m_dets[d].confidence
                        /\ SpecIouGreater(m_dets[k].bbox, m_dets[d].bbox, m_thr)
          /\ \E k \in Kept : m_dets[k].confidence = MaxConfidence(m_dets)
    /\ m_pc = "done" =>
          /\ \A d \in 1..Len(m_dets) :
                m_dets[d] \notin Range(m_out) =>
                    \E k \in 1..Len(m_out) :
                        /\ m_out[k].confidence >= m_dets[d].confidence
                        /\ SpecIouGreater(m_out[k].bbox, m_dets[d].bbox, m_thr)
          /\ m_dets # <<>> =>
                \E k \in 1..Len(m_out) : m_out[k].confidence = MaxConfidence(m_dets)

\* three detections of which two are kept: the discarded one is as confident
\* as the one that suppressed it and is not suppressed by the other
C22_Witness ==
    /\ m_pc = "return"
    /\ Len(m_dets) = 3
    /\ Len(m_indices) = 2
    /\ \E d \in 1..3 :
          /\ d \notin Kept
          /\ m_dets[d].confidence = MaxConfidence(m_dets)
          /\ \E k \in Kept : ~SpecIouGreater(m_dets[k].bbox, m_dets[d].bbox, m_thr)

\* `out` is a selection from `dets`: its elements are elements of dets,
\* unchanged, each as many times at most as dets holds it (they can be taken
\* from distinct positions)
IsSelection(out, dets) ==
    /\ Len(out) <= Len(dets)
    /\ \A e \in Range(out) : Count(out, e) >= 1 /\ Count(out, e) <= Count(dets, e)

\* C23: the merger only selects: the output holds each input detection at
\* most once, every output element is an input element with bbox and
\* confidence unchanged, the output is empty iff the input is, it is never
\* longer than the input, and no step of a call modifies the input list
C23_OnlySelects ==
    [][m_pc # "done" =>
          /\ m_dets' = m_dets
          /\ m_pc' = "done" =>
                /\ IsSelection(m_out', m_dets)
                /\ (m_out' = <<>>) <=> (m_dets = <<>>)
                /\ Len(m_out') <= Len(m_dets)]_vars

\* a call on three detections, two of them equal, that returned two of the
\* three, the first of the output not being the first of the input
C23_Witness ==
    /\ m_pc = "done"
    /\ m_pass = 1
    /\ Len(m_dets) = 3
    /\ \E i, j \in 1..3 : i # j /\ m_dets[i] = m_dets[j]
    /\ Len(m_out) = 2
    /\ m_out[1] # m_dets[1]

-----------------------------------------------------------------------------
(* Further properties of slice_image, under SpecSlice *)

\* no two tiles of the list have the same (offset_x, offset_y)
DistinctOffsets(slices) ==
    \A i, j \in 1..Len(slices) : i # j => slices[i].offset # slices[j].offset

\* C24 (as claimed): slice_image never returns two tiles with the same
\* offset, for every image size, slice_size and overlap
C24_DistinctOffsets ==
    s_pc = "done" => DistinctOffsets(s_slices)

\* the same for the pipeline's call, slice_size 640 and overlap 0.25, on a
\* 2560x1440 image
C24_DistinctOffsetsAt2560x1440 ==
    s_pc = "done" => DistinctOffsets(slice_image(2560, 1440, SLICE_SIZE, SLICE_OVERLAP))

-----------------------------------------------------------------------------
(* Properties of the confidence buckets, under SpecBuckets *)

\* number of the confidences of cs in the bucket from lo (included) to hi
\* (excluded), in units of 1/10000
InBucket(cs, lo, hi) == Cardinality({i \in 1..Len(cs) : lo <= cs[i] /\ cs[i] < hi})

\* the buckets hold what the claim says they count, and add up to total
BucketsPartition(dist, cs, total) ==
    /\ dist.high + dist.medium + dist.low = total
    /\ dist.high = InBucket(cs, 7000, 10001)
    /\ dist.medium = InBucket(cs, 5000, 7000)
    /\ dist.low = InBucket(cs, 0, 5000)

\* the reported confidences of a successful result of detect_persons
ReportedConfidences ==
    [i \in 1..Len(y_result.detections.persons) |-> y_result.detections.persons[i].confidence]

\* the buckets of detect_persons partition its count
YoloBucketsPartition ==
    (y_pc = "done" /\ y_result.success) =>
        BucketsPartition(y_result.detections.confidence_distribution,
                         ReportedConfidences, y_result.detections.total_persons)

\* the buckets of analyze_pixel_density partition its count: the whole
\* count is in the bucket of the one confidence of the estimate
DensityBucketsPartition ==
    (d_pc = "done" /\ d_result.success) =>
        BucketsPartition(d_result.confidence_distribution,
                         [i \in 1..d_result.total_persons |-> d_result.confidence],
                         d_result.total_persons)

\* every reported detection is a person that passed the threshold before
\* its confidence was rounded: its reported confidence is at least the
\* threshold rounded to three decimals
YoloReportedAboveRoundedThreshold ==
    (y_pc = "done" /\ y_result.success) =>
        \A i \in 1..Len(y_result.detections.persons) :
            /\ y_result.detections.persons[i].class = "person"
            /\ y_result.detections.persons[i].confidence >= Round3(y_threshold, 1)

\* C25 (as claimed): in every successful result of detect_persons and of
\* analyze_pixel_density high + medium + low = total_persons, high counting
\* confidence >= 0.7, medium 0.5 <= confidence < 0.7 and low confidence <
\* 0.5; and every detection detect_persons reports has class person and
\* confidence >= confidence_threshold
C25_BucketsAndFloor ==
    /\ YoloBucketsPartition
    /\ DensityBucketsPartition
    /\ (y_pc = "done" /\ y_result.success) =>
          \A i \in 1..Len(y_result.detections.persons) :
              /\ y_result.detections.persons[i].class = "person"
              /\ y_result.detections.persons[i].confidence >= y_threshold

====
